---------------------------- MODULE Spec2Model ----------------------------
(***************************************************************************)
(* A model of packaged_json_py: the directory packager (scan), the         *)
(* extractor and the validator.                                            *)
(*                                                                         *)
(* Strings are sequences of code points, file contents are sequences of    *)
(* byte values 0..255, a path is a sequence of names.  The model is that   *)
(* of a POSIX build: os.sep is "/", os.linesep is "\n", os.path.normcase   *)
(* is the identity.                                                        *)
(***************************************************************************)
EXTENDS Integers, Sequences, FiniteSets, TLC

VARIABLES
    tree,               \* the source directory on disk: a set of entries
    config,             \* DirectoryPackager.config
    stats,              \* DirectoryPackager.stats
    gitignore_patterns, \* DirectoryPackager.gitignore_patterns
    use_gitignore,      \* DirectoryPackager.use_gitignore
    source_root,        \* DirectoryPackager.source_root (<<>> is None)
    ignoredLog,         \* the paths should_ignore answered True for in the last scan
    docs,               \* the documents returned by scan_directory, oldest first
    clock,              \* datetime.now()
    overwrite,          \* DirectoryExtractor.overwrite
    xstats,             \* DirectoryExtractor.stats
    dest,               \* the destination directory on disk: a set of entries
    extracted,          \* extract_directory has returned
    original_files,     \* compare_files: the original walk's file map
    extracted_files,    \* compare_files: the extracted walk's file map
    vstats,             \* DirectoryValidator.stats
    errors,             \* DirectoryValidator.errors
    warnings,           \* DirectoryValidator.warnings
    files_match,        \* what compare_files returned ("none" before the call)
    config_patterns,    \* DirectoryValidator.config_patterns
    dirs_match,         \* what compare_directories returned ("none" before the call)
    validation_passed,  \* what validate returned ("none" before the call)
    user_config         \* the mapping load_config read (<<>> before it read one)

vars == <<tree, config, stats, gitignore_patterns, use_gitignore,
          source_root, ignoredLog, docs, clock, overwrite, xstats,
          dest, extracted, original_files, extracted_files, vstats, errors,
          warnings, files_match, config_patterns, dirs_match,
          validation_passed, user_config>>

scanVars == <<tree, config, stats, gitignore_patterns, use_gitignore,
              source_root, ignoredLog, docs, clock, user_config>>
extractVars == <<overwrite, xstats, dest, extracted>>
validateVars == <<original_files, extracted_files, vstats, errors, warnings,
                  files_match, config_patterns, dirs_match, validation_passed>>

-----------------------------------------------------------------------------
(* Characters and strings *)

Ch == [nul |-> 0, tab |-> 9, lf |-> 10, cr |-> 13, space |-> 32, bang |-> 33,
       hash |-> 35, star |-> 42, plus |-> 43, dot |-> 46, slash |-> 47,
       digit0 |-> 48, eq |-> 61, qmark |-> 63, upperA |-> 65, upperZ |-> 90,
       lbracket |-> 91, lowerA |-> 97]

Max(a, b) == IF a >= b THEN a ELSE b

Abs(a) == IF a >= 0 THEN a ELSE 0 - a

\* str.lower() of one character (ASCII letters; the model's names are ASCII)
LowerCh(c) == IF c >= Ch.upperA /\ c <= Ch.upperZ THEN c + 32 ELSE c

\* str.lower()
Lower(s) == [i \in 1..Len(s) |-> LowerCh(s[i])]

\* s < t for Python strings: lexicographic by code point
RECURSIVE StrLess(_, _)
StrLess(s, t) ==
    IF t = <<>> THEN FALSE
    ELSE IF s = <<>> THEN TRUE
    ELSE IF Head(s) # Head(t) THEN Head(s) < Head(t)
    ELSE StrLess(Tail(s), Tail(t))

\* str.endswith
EndsWith(s, suffix) ==
    /\ Len(suffix) <= Len(s)
    /\ SubSeq(s, Len(s) - Len(suffix) + 1, Len(s)) = suffix

\* str.startswith
StartsWith(s, prefix) ==
    /\ Len(prefix) <= Len(s)
    /\ SubSeq(s, 1, Len(prefix)) = prefix

\* x in list
InList(x, list) == \E i \in 1..Len(list) : list[i] = x

\* c in s, for a character c
HasChar(s, c) == \E i \in 1..Len(s) : s[i] = c

\* the characters str.strip() removes
Whitespace == (9..13) \cup (28..32) \cup {133, 160}

RECURSIVE LStrip(_)
LStrip(s) == IF s # <<>> /\ Head(s) \in Whitespace THEN LStrip(Tail(s)) ELSE s

RECURSIVE RStrip(_)
RStrip(s) ==
    IF s # <<>> /\ s[Len(s)] \in Whitespace
    THEN RStrip(SubSeq(s, 1, Len(s) - 1))
    ELSE s

\* str.strip()
Strip(s) == RStrip(LStrip(s))

\* fnmatch.fnmatch(name, pat) on POSIX: "*" matches any run of characters
\* ("/" and a leading "." included), "?" any one character, anything else
\* itself.  Patterns with "[" are outside the model's pattern alphabet.
RECURSIVE fnmatch(_, _)
fnmatch(name, pat) ==
    IF pat = <<>> THEN name = <<>>
    ELSE IF Head(pat) = Ch.star
         THEN \/ fnmatch(name, Tail(pat))
              \/ name # <<>> /\ fnmatch(Tail(name), pat)
    ELSE IF name = <<>> THEN FALSE
    ELSE IF Head(pat) = Ch.qmark THEN fnmatch(Tail(name), Tail(pat))
    ELSE Head(name) = Head(pat) /\ fnmatch(Tail(name), Tail(pat))

\* the index of the last "." of a name, 0 when there is none
LastDot(name) ==
    LET dots == {i \in 1..Len(name) : name[i] = Ch.dot}
    IN IF dots = {} THEN 0 ELSE CHOOSE i \in dots : \A j \in dots : j <= i

\* PurePath.suffix: the last dot-part of the name, "" when the only dot leads
\* the name or ends it
Suffix(name) ==
    LET i == LastDot(name)
    IN IF i > 1 /\ i < Len(name) THEN SubSeq(name, i, Len(name)) ELSE <<>>

\* "/".join(parts)
RECURSIVE JoinPath(_)
JoinPath(parts) ==
    IF parts = <<>> THEN <<>>
    ELSE IF Len(parts) = 1 THEN parts[1]
    ELSE parts[1] \o <<Ch.slash>> \o JoinPath(Tail(parts))

-----------------------------------------------------------------------------
(* Text codecs and base64 *)

IsCont(b) == b >= 128 /\ b <= 191

\* the length of the UTF-8 sequence that starts at bytes[i], 0 when the
\* bytes there are not valid UTF-8
Utf8SeqLen(bytes, i) ==
    LET n == Len(bytes)
        b == bytes[i]
        c(k) == IF i + k <= n THEN bytes[i + k] ELSE 0
    IN IF b < 128 THEN 1
       ELSE IF b >= 194 /\ b <= 223 /\ IsCont(c(1)) THEN 2
       ELSE IF b = 224 /\ c(1) >= 160 /\ c(1) <= 191 /\ IsCont(c(2)) THEN 3
       ELSE IF b = 237 /\ c(1) >= 128 /\ c(1) <= 159 /\ IsCont(c(2)) THEN 3
       ELSE IF b >= 225 /\ b <= 239 /\ b # 237 /\ IsCont(c(1)) /\ IsCont(c(2)) THEN 3
       ELSE IF b = 240 /\ c(1) >= 144 /\ c(1) <= 191 /\ IsCont(c(2)) /\ IsCont(c(3)) THEN 4
       ELSE IF b >= 241 /\ b <= 243 /\ IsCont(c(1)) /\ IsCont(c(2)) /\ IsCont(c(3)) THEN 4
       ELSE IF b = 244 /\ c(1) >= 128 /\ c(1) <= 143 /\ IsCont(c(2)) /\ IsCont(c(3)) THEN 4
       ELSE 0

\* the code point of the UTF-8 sequence of length k that starts at bytes[i]
Utf8CodePoint(bytes, i, k) ==
    IF k = 1 THEN bytes[i]
    ELSE IF k = 2 THEN (bytes[i] - 192) * 64 + (bytes[i + 1] - 128)
    ELSE IF k = 3 THEN (bytes[i] - 224) * 4096 + (bytes[i + 1] - 128) * 64
                       + (bytes[i + 2] - 128)
    ELSE (bytes[i] - 240) * 262144 + (bytes[i + 1] - 128) * 4096
         + (bytes[i + 2] - 128) * 64 + (bytes[i + 3] - 128)

\* bytes.decode("utf-8"): [ok, text]; ok is FALSE for a UnicodeDecodeError
RECURSIVE Utf8DecodeFrom(_, _, _)
Utf8DecodeFrom(bytes, i, acc) ==
    IF i > Len(bytes) THEN [ok |-> TRUE, text |-> acc]
    ELSE LET k == Utf8SeqLen(bytes, i)
         IN IF k = 0 THEN [ok |-> FALSE, text |-> <<>>]
            ELSE Utf8DecodeFrom(bytes, i + k,
                                Append(acc, Utf8CodePoint(bytes, i, k)))

\* ASCII content decodes to itself; Utf8DecodeFrom is walked only when a
\* byte above 127 is present
Utf8Decode(bytes) ==
    IF \A i \in 1..Len(bytes) : bytes[i] < 128
    THEN [ok |-> TRUE, text |-> bytes]
    ELSE Utf8DecodeFrom(bytes, 1, <<>>)

\* one code point as UTF-8 (surrogates never arise from decoded text)
Utf8EncodeCh(c) ==
    IF c < 128 THEN <<c>>
    ELSE IF c < 2048 THEN <<192 + (c \div 64), 128 + (c % 64)>>
    ELSE IF c < 65536
         THEN <<224 + (c \div 4096), 128 + ((c \div 64) % 64), 128 + (c % 64)>>
    ELSE <<240 + (c \div 262144), 128 + ((c \div 4096) % 64),
           128 + ((c \div 64) % 64), 128 + (c % 64)>>

RECURSIVE Utf8EncodeFrom(_, _, _)
Utf8EncodeFrom(text, i, acc) ==
    IF i > Len(text) THEN acc
    ELSE Utf8EncodeFrom(text, i + 1, acc \o Utf8EncodeCh(text[i]))

\* str.encode("utf-8")
Utf8Encode(text) ==
    IF \A i \in 1..Len(text) : text[i] < 128 THEN text
    ELSE Utf8EncodeFrom(text, 1, <<>>)

\* bytes.decode("ascii"): a byte above 127 is refused
AsciiDecode(bytes) ==
    IF \A i \in 1..Len(bytes) : bytes[i] < 128
    THEN [ok |-> TRUE, text |-> bytes]
    ELSE [ok |-> FALSE, text |-> <<>>]

\* bytes.decode("latin-1"): every byte is the code point of the same number,
\* and no byte sequence is refused
Latin1Decode(bytes) == [ok |-> TRUE, text |-> bytes]

\* str.encode("latin-1"): [ok, bytes]; ok is FALSE for a UnicodeEncodeError
Latin1Encode(text) ==
    IF \A i \in 1..Len(text) : text[i] <= 255
    THEN [ok |-> TRUE, bytes |-> text]
    ELSE [ok |-> FALSE, bytes |-> <<>>]

\* reading in text mode (newline=None): "\r\n" and a lone "\r" become "\n"
RECURSIVE UniversalNewlinesFrom(_, _, _)
UniversalNewlinesFrom(text, i, acc) ==
    IF i > Len(text) THEN acc
    ELSE IF text[i] = Ch.cr
         THEN IF i < Len(text) /\ text[i + 1] = Ch.lf
              THEN UniversalNewlinesFrom(text, i + 2, Append(acc, Ch.lf))
              ELSE UniversalNewlinesFrom(text, i + 1, Append(acc, Ch.lf))
    ELSE UniversalNewlinesFrom(text, i + 1, Append(acc, text[i]))

UniversalNewlines(text) ==
    IF HasChar(text, Ch.cr) THEN UniversalNewlinesFrom(text, 1, <<>>) ELSE text

\* os.linesep
linesep == <<Ch.lf>>

\* writing in text mode (newline=None): every "\n" becomes os.linesep
RECURSIVE WriteNewlinesFrom(_, _, _)
WriteNewlinesFrom(text, i, acc) ==
    IF i > Len(text) THEN acc
    ELSE IF text[i] = Ch.lf
         THEN WriteNewlinesFrom(text, i + 1, acc \o linesep)
    ELSE WriteNewlinesFrom(text, i + 1, Append(acc, text[i]))

WriteNewlines(text) ==
    IF linesep = <<Ch.lf>> THEN text ELSE WriteNewlinesFrom(text, 1, <<>>)

\* the base64 alphabet: the character of a 6-bit value
B64Char(v) ==
    IF v < 26 THEN Ch.upperA + v
    ELSE IF v < 52 THEN Ch.lowerA + (v - 26)
    ELSE IF v < 62 THEN Ch.digit0 + (v - 52)
    ELSE IF v = 62 THEN Ch.plus
    ELSE Ch.slash

\* the 6-bit value of a base64 character, -1 for any other character
B64Value(c) ==
    IF c >= Ch.upperA /\ c <= Ch.upperZ THEN c - Ch.upperA
    ELSE IF c >= Ch.lowerA /\ c <= Ch.lowerA + 25 THEN c - Ch.lowerA + 26
    ELSE IF c >= Ch.digit0 /\ c <= Ch.digit0 + 9 THEN c - Ch.digit0 + 52
    ELSE IF c = Ch.plus THEN 62
    ELSE IF c = Ch.slash THEN 63
    ELSE 0 - 1

\* a base64 encoding that leaves out the "=" padding
b64encode_unpadded(bytes) ==
    LET n == Len(bytes)
        at(k) == IF k <= n THEN bytes[k] ELSE 0
        group(g) == at(3 * g + 1) * 65536 + at(3 * g + 2) * 256 + at(3 * g + 3)
    IN [i \in 1..((4 * n + 2) \div 3) |->
            LET g == (i - 1) \div 4
                j == (i - 1) % 4
            IN IF j = 0 THEN B64Char(group(g) \div 262144)
               ELSE IF j = 1 THEN B64Char((group(g) \div 4096) % 64)
               ELSE IF j = 2 THEN B64Char((group(g) \div 64) % 64)
               ELSE B64Char(group(g) % 64)]

\* base64.b64encode(bytes).decode("ascii")
b64encode(bytes) ==
    LET n == Len(bytes)
        at(k) == IF k <= n THEN bytes[k] ELSE 0
        group(g) == at(3 * g + 1) * 65536 + at(3 * g + 2) * 256 + at(3 * g + 3)
    IN [i \in 1..(4 * ((n + 2) \div 3)) |->
            LET g == (i - 1) \div 4
                j == (i - 1) % 4
            IN IF j = 2 /\ 3 * g + 2 > n THEN Ch.eq
               ELSE IF j = 3 /\ 3 * g + 3 > n THEN Ch.eq
               ELSE IF j = 0 THEN B64Char(group(g) \div 262144)
               ELSE IF j = 1 THEN B64Char((group(g) \div 4096) % 64)
               ELSE IF j = 2 THEN B64Char((group(g) \div 64) % 64)
               ELSE B64Char(group(g) % 64)]

\* base64.b64decode(data) of a string of base64 characters with "=" only as
\* its padding: [ok, bytes]; ok is FALSE for binascii.Error (a length that is
\* no multiple of 4)
b64decode(data) ==
    LET n == Len(data)
        pad == IF n >= 2 /\ data[n] = Ch.eq /\ data[n - 1] = Ch.eq THEN 2
               ELSE IF n >= 1 /\ data[n] = Ch.eq THEN 1
               ELSE 0
        val(k) == IF data[k] = Ch.eq THEN 0 ELSE B64Value(data[k])
        group(g) == val(4 * g + 1) * 262144 + val(4 * g + 2) * 4096
                    + val(4 * g + 3) * 64 + val(4 * g + 4)
    IN IF n % 4 # 0 THEN [ok |-> FALSE, bytes |-> <<>>]
       ELSE [ok |-> TRUE,
             bytes |-> [i \in 1..(3 * (n \div 4) - pad) |->
                            LET g == (i - 1) \div 3
                                j == (i - 1) % 3
                            IN IF j = 0 THEN group(g) \div 65536
                               ELSE IF j = 1 THEN (group(g) \div 256) % 256
                               ELSE group(g) % 256]]

-----------------------------------------------------------------------------
(* ConfigManager._get_default_config *)

default_max_content_size == 10485760

default_capture_extensions == <<>>

default_no_capture_extensions ==
    <<
       <<46,101,120,101>>,   \* ".exe"
       <<46,100,108,108>>,   \* ".dll"
       <<46,115,111>>,   \* ".so"
       <<46,100,121,108,105,98>>,   \* ".dylib"
       <<46,98,105,110>>,   \* ".bin"
       <<46,105,109,103>>,   \* ".img"
       <<46,105,115,111>>,   \* ".iso"
       <<46,122,105,112>>,   \* ".zip"
       <<46,114,97,114>>,   \* ".rar"
       <<46,55,122>>,   \* ".7z"
       <<46,116,97,114>>,   \* ".tar"
       <<46,103,122>>,   \* ".gz"
       <<46,98,122,50>>,   \* ".bz2"
       <<46,120,122>>,   \* ".xz"
       <<46,112,100,102>>,   \* ".pdf"
       <<46,100,111,99>>,   \* ".doc"
       <<46,100,111,99,120>>,   \* ".docx"
       <<46,120,108,115>>,   \* ".xls"
       <<46,120,108,115,120>>,   \* ".xlsx"
       <<46,112,112,116>>,   \* ".ppt"
       <<46,112,112,116,120>>,   \* ".pptx"
       <<46,109,112,51>>,   \* ".mp3"
       <<46,109,112,52>>,   \* ".mp4"
       <<46,97,118,105>>,   \* ".avi"
       <<46,109,107,118>>,   \* ".mkv"
       <<46,119,97,118>>,   \* ".wav"
       <<46,102,108,97,99>>,   \* ".flac"
       <<46,106,112,103>>,   \* ".jpg"
       <<46,106,112,101,103>>,   \* ".jpeg"
       <<46,112,110,103>>,   \* ".png"
       <<46,103,105,102>>,   \* ".gif"
       <<46,98,109,112>>,   \* ".bmp"
       <<46,116,105,102,102>>,   \* ".tiff"
       <<46,119,101,98,112>>,   \* ".webp"
       <<46,105,99,111>>   \* ".ico"
    >>

default_ignore_extensions ==
    <<
       <<46,112,121,99>>,   \* ".pyc"
       <<46,112,121,111>>,   \* ".pyo"
       <<46,112,121,100>>,   \* ".pyd"
       <<46,115,111>>,   \* ".so"
       <<46,100,108,108>>,   \* ".dll"
       <<46,100,121,108,105,98>>,   \* ".dylib"
       <<46,111>>,   \* ".o"
       <<46,111,98,106>>,   \* ".obj"
       <<46,101,120,101>>,   \* ".exe"
       <<46,98,105,110>>,   \* ".bin"
       <<46,108,111,103>>,   \* ".log"
       <<46,116,109,112>>,   \* ".tmp"
       <<46,116,101,109,112>>,   \* ".temp"
       <<46,99,97,99,104,101>>,   \* ".cache"
       <<46,98,97,107>>,   \* ".bak"
       <<46,115,119,112>>,   \* ".swp"
       <<46,115,119,111>>,   \* ".swo"
       <<126>>,   \* "~"
       <<46,68,83,95,83,116,111,114,101>>,   \* ".DS_Store"
       <<84,104,117,109,98,115,46,100,98>>   \* "Thumbs.db"
    >>

default_ignore_file_patterns ==
    <<
       <<42,46,116,109,112>>,   \* "*.tmp"
       <<42,46,116,101,109,112>>,   \* "*.temp"
       <<42,46,108,111,103>>,   \* "*.log"
       <<42,46,99,97,99,104,101>>,   \* "*.cache"
       <<42,46,98,97,107>>,   \* "*.bak"
       <<46,42>>,   \* ".*"
       <<35,42,35>>,   \* "#*#"
       <<42,126>>   \* "*~"
    >>

default_ignore_folder_patterns ==
    <<
       <<95,95,112,121,99,97,99,104,101,95,95>>,   \* "__pycache__"
       <<42,46,101,103,103,45,105,110,102,111>>,   \* "*.egg-info"
       <<46,103,105,116>>,   \* ".git"
       <<46,115,118,110>>,   \* ".svn"
       <<46,104,103>>,   \* ".hg"
       <<46,98,122,114>>,   \* ".bzr"
       <<67,86,83>>,   \* "CVS"
       <<46,118,115,99,111,100,101>>,   \* ".vscode"
       <<46,105,100,101,97>>,   \* ".idea"
       <<110,111,100,101,95,109,111,100,117,108,101,115>>,   \* "node_modules"
       <<118,101,110,118>>,   \* "venv"
       <<101,110,118>>,   \* "env"
       <<46,101,110,118>>,   \* ".env"
       <<118,105,114,116,117,97,108,101,110,118>>,   \* "virtualenv"
       <<46,118,101,110,118>>,   \* ".venv"
       <<98,117,105,108,100>>,   \* "build"
       <<100,105,115,116>>,   \* "dist"
       <<116,97,114,103,101,116>>,   \* "target"
       <<98,105,110>>,   \* "bin"
       <<111,98,106>>,   \* "obj"
       <<46,112,121,116,101,115,116,95,99,97,99,104,101>>,   \* ".pytest_cache"
       <<46,99,111,118,101,114,97,103,101>>,   \* ".coverage"
       <<46,116,111,120>>,   \* ".tox"
       <<46,109,121,112,121,95,99,97,99,104,101>>,   \* ".mypy_cache"
       <<111,117,116,112,117,116,115>>   \* "outputs"
    >>

default_ignore_paths ==
    <<
       <<46,103,105,116,105,103,110,111,114,101>>,   \* ".gitignore"
       <<46,103,105,116,97,116,116,114,105,98,117,116,101,115>>,   \* ".gitattributes"
       <<76,73,67,69,78,83,69>>,   \* "LICENSE"
       <<115,101,116,117,112,46,112,121>>,   \* "setup.py"
       <<115,101,116,117,112,46,99,102,103>>,   \* "setup.cfg"
       <<112,121,112,114,111,106,101,99,116,46,116,111,109,108>>,   \* "pyproject.toml"
       <<80,105,112,102,105,108,101>>,   \* "Pipfile"
       <<80,105,112,102,105,108,101,46,108,111,99,107>>   \* "Pipfile.lock"
    >>

DefaultConfig ==
    [capture_contents |-> TRUE,
     max_content_size |-> default_max_content_size,
     capture_extensions |-> default_capture_extensions,
     no_capture_extensions |-> default_no_capture_extensions,
     ignore_extensions |-> default_ignore_extensions,
     ignore_file_patterns |-> default_ignore_file_patterns,
     ignore_folder_patterns |-> default_ignore_folder_patterns,
     ignore_paths |-> default_ignore_paths]

-----------------------------------------------------------------------------
(* The source directory *)

n_gitignore == <<46, 103, 105, 116, 105, 103, 110, 111, 114, 101>>   \* ".gitignore"
n_git == <<46, 103, 105, 116>>   \* ".git"
n_pycache == <<95, 95, 112, 121, 99, 97, 99, 104, 101, 95, 95>>   \* "__pycache__"
n_head == <<72, 69, 65, 68>>   \* "HEAD"
n_a_txt == <<97, 46, 116, 120, 116>>   \* "a.txt"
n_A_txt == <<65, 46, 116, 120, 116>>   \* "A.txt"
n_c_txt == <<99, 46, 116, 120, 116>>   \* "c.txt"
n_L_txt == <<76, 46, 116, 120, 116>>   \* "L.txt"
n_p_png == <<112, 46, 112, 110, 103>>   \* "p.png"
n_build == <<98, 117, 105, 108, 100>>   \* "build"
n_x_txt == <<120, 46, 116, 120, 116>>   \* "x.txt"
n_buildkit_txt == <<98, 117, 105, 108, 100, 107, 105, 116, 46, 116, 120, 116>>   \* "buildkit.txt"
n_sub == <<115, 117, 98>>   \* "sub"
n_b_bin == <<98, 46, 98, 105, 110>>   \* "b.bin"
n_M_txt == <<77, 46, 116, 120, 116>>   \* "M.txt"
n_x_log == <<120, 46, 108, 111, 103>>   \* "x.log"
n_u_txt == <<117, 46, 116, 120, 116>>   \* "u.txt"
s_hello == <<104, 101, 108, 108, 111>>   \* "hello"
s_Hi == <<72, 105>>   \* "Hi"
s_crlf == <<97, 13, 10, 98>>   \* "a\r\nb"
s_e_acute == <<233>>   \* b"\xe9": no valid UTF-8, "é" in Latin-1

\* the root directory given to scan_directory, Path("r")
root_path == <<114>>

\* an entry of a directory tree: its path from the root, what it is, its
\* bytes (a file's), whether opening it (a file) or listing it (a directory)
\* is permitted, and its st_mtime in nanoseconds
File(path, bytes) ==
    [path |-> path, kind |-> "file", bytes |-> bytes, readable |-> TRUE,
     mtime |-> 7400]

Dir(path) ==
    [path |-> path, kind |-> "dir", bytes |-> <<>>, readable |-> TRUE,
     mtime |-> 7400]

Unreadable(e) == [e EXCEPT !.readable = FALSE]

\* the top-level entries a tree is put together from, each with what it holds
Units ==
    << {File(<<n_a_txt>>, s_hello)},
       {File(<<n_A_txt>>, s_Hi)},
       {File(<<n_c_txt>>, s_crlf)},
       {File(<<n_L_txt>>, s_e_acute)},
       {File(<<n_p_png>>, s_e_acute)},
       {Dir(<<n_build>>), File(<<n_build, n_x_txt>>, s_Hi),
        File(<<n_build, n_x_log>>, s_Hi)},
       {File(<<n_buildkit_txt>>, s_Hi)},
       {Dir(<<n_sub>>), File(<<n_sub, n_b_bin>>, <<0, 0, 0, 0>>),
        File(<<n_sub, n_build>>, s_Hi), File(<<n_sub, n_M_txt>>, s_Hi)},
       {Dir(<<n_git>>), File(<<n_git, n_head>>, s_Hi)},
       {File(<<n_x_log>>, s_Hi)},
       {Unreadable(File(<<n_u_txt>>, s_e_acute))} >>

\* what may stand at <root>/.gitignore: nothing, a directory, a file that is
\* no UTF-8, a file that may not be opened, and two pattern files
GitIgnores ==
    { {},
      {Dir(<<n_gitignore>>)},
      {File(<<n_gitignore>>, <<233, 10>>)},
      {Unreadable(File(<<n_gitignore>>, <<98, 117, 105, 108, 100, 47, 10>>))},
      \* "build/\n"
      {File(<<n_gitignore>>, <<98, 117, 105, 108, 100, 47, 10>>)},
      \* "b*/\n!x.log\n# c\n\n *.log \r\n"
      {File(<<n_gitignore>>,
            <<98, 42, 47, 10, 33, 120, 46, 108, 111, 103, 10, 35, 32, 99, 10,
              10, 32, 42, 46, 108, 111, 103, 32, 13, 10>>)} }

\* the most top-level entries (besides .gitignore) of a tree
MaxTop == 2

\* the root of the scenario: a.txt ("hello"), sub/b.bin (10,000 zero bytes)
\* and a .git directory
ScenarioTree ==
    {File(<<n_a_txt>>, s_hello), Dir(<<n_sub>>),
     File(<<n_sub, n_b_bin>>, [i \in 1..10000 |-> 0]), Dir(<<n_git>>)}

Trees ==
    {UNION {Units[i] : i \in S} \cup g :
        S \in {T \in SUBSET (1..Len(Units)) : Cardinality(T) <= MaxTop},
        g \in GitIgnores}
    \cup {ScenarioTree}

Name(e) == e.path[Len(e.path)]

is_file(e) == e.kind = "file"

is_dir(e) == e.kind = "dir"

\* the entries of directory p (<<>> is the root) in tree t
Children(t, p) ==
    {e \in t : Len(e.path) = Len(p) + 1 /\ SubSeq(e.path, 1, Len(p)) = p}

\* the entries of a set in ascending order of their names
RECURSIVE ByName(_)
ByName(S) ==
    IF S = {} THEN <<>>
    ELSE LET m == CHOOSE e \in S :
                    \A f \in S \ {e} : StrLess(Name(e), Name(f))
         IN <<m>> \o ByName(S \ {m})

Reverse(s) == [i \in 1..Len(s) |-> s[Len(s) + 1 - i]]

\* the orders in which the filesystem may hand out a directory's entries
IterOrders == {"asc", "desc"}

\* list(path.iterdir()) under an enumeration order
iterdir(t, p, order) ==
    IF order = "asc" THEN ByName(Children(t, p))
    ELSE Reverse(ByName(Children(t, p)))

\* str(path) of an entry: the root it was reached from, then its parts
PathStr(e) == root_path \o <<Ch.slash>> \o JoinPath(e.path)

\* datetime.fromtimestamp(st_mtime).isoformat(): the time rounded to the
\* microsecond
isoformat(mtime) == (mtime + 500) \div 1000

-----------------------------------------------------------------------------
(* DirectoryPackager *)

\* A packager pk is the record of the instance's fields the walk reads:
\* [config, use_gitignore, gitignore_patterns, source_root].

\* the lines of a text read in text mode, each without its "\n"
RECURSIVE SplitLines(_, _, _)
SplitLines(text, i, line) ==
    IF i > Len(text) THEN (IF line = <<>> THEN <<>> ELSE <<line>>)
    ELSE IF text[i] = Ch.lf
         THEN <<line>> \o SplitLines(text, i + 1, <<>>)
    ELSE SplitLines(text, i + 1, Append(line, text[i]))

\* load_gitignore's loop: the stripped lines that are neither empty nor
\* comments
RECURSIVE PatternLines(_)
PatternLines(lines) ==
    IF lines = <<>> THEN <<>>
    ELSE LET line == Strip(Head(lines))
         IN IF line # <<>> /\ ~StartsWith(line, <<Ch.hash>>)
            THEN <<line>> \o PatternLines(Tail(lines))
            ELSE PatternLines(Tail(lines))

\* a load_gitignore that turns pattern mode on whenever <root>/.gitignore
\* exists, whatever it is
load_gitignore_if_exists(t, before) ==
    LET found == {e \in Children(t, <<>>) : Name(e) = n_gitignore}
    IN IF found = {} THEN [use_gitignore |-> FALSE, gitignore_patterns |-> before]
       ELSE LET e == CHOOSE x \in found : TRUE
                dec == Utf8Decode(e.bytes)
            IN [use_gitignore |-> TRUE,
                gitignore_patterns |->
                    IF is_file(e) /\ e.readable /\ dec.ok
                    THEN PatternLines(SplitLines(UniversalNewlines(dec.text),
                                                 1, <<>>))
                    ELSE <<>>]

\* load_gitignore: the use_gitignore flag and the pattern list it leaves;
\* `before` is the pattern list of the instance before the call, kept when
\* the file is absent or cannot be read
load_gitignore(t, before) ==
    LET found == {e \in Children(t, <<>>) : Name(e) = n_gitignore /\ is_file(e)}
    IN IF found = {} THEN [use_gitignore |-> FALSE, gitignore_patterns |-> before]
       ELSE LET e == CHOOSE x \in found : TRUE
                dec == Utf8Decode(e.bytes)
            IN IF ~e.readable \/ ~dec.ok
               THEN [use_gitignore |-> FALSE, gitignore_patterns |-> before]
               ELSE [use_gitignore |-> TRUE,
                     gitignore_patterns |->
                        PatternLines(SplitLines(UniversalNewlines(dec.text),
                                                1, <<>>))]

\* a pattern match that forgets path.is_dir() for a pattern ending in "/"
MatchesPatternAnyKind(pattern, e) ==
    LET path_str == JoinPath(e.path)
        name == Name(e)
    IN IF StartsWith(pattern, <<Ch.bang>>) THEN FALSE
       ELSE IF EndsWith(pattern, <<Ch.slash>>)
            THEN LET dir_pattern == SubSeq(pattern, 1, Len(pattern) - 1)
                 IN fnmatch(name, dir_pattern) \/ fnmatch(path_str, dir_pattern)
       ELSE \/ fnmatch(name, pattern)
            \/ fnmatch(path_str, pattern)

\* a pattern match that applies a line starting with "!" as the pattern
\* behind the "!"
MatchesPatternBehindBang(pattern, e) ==
    LET path_str == JoinPath(e.path)
        name == Name(e)
        p == IF StartsWith(pattern, <<Ch.bang>>)
             THEN SubSeq(pattern, 2, Len(pattern)) ELSE pattern
    IN IF EndsWith(p, <<Ch.slash>>)
       THEN /\ is_dir(e)
            /\ LET dir_pattern == SubSeq(p, 1, Len(p) - 1)
               IN fnmatch(name, dir_pattern) \/ fnmatch(path_str, dir_pattern)
       ELSE \/ fnmatch(name, p)
            \/ fnmatch(path_str, p)

\* one pattern of matches_gitignore_pattern's loop against an entry
MatchesPattern(pattern, e) ==
    LET path_str == JoinPath(e.path)
        name == Name(e)
    IN IF StartsWith(pattern, <<Ch.bang>>) THEN FALSE
       ELSE IF EndsWith(pattern, <<Ch.slash>>)
            THEN /\ is_dir(e)
                 /\ LET dir_pattern == SubSeq(pattern, 1, Len(pattern) - 1)
                    IN fnmatch(name, dir_pattern) \/ fnmatch(path_str, dir_pattern)
       ELSE \/ fnmatch(name, pattern)
            \/ fnmatch(path_str, pattern)
            \/ HasChar(pattern, Ch.slash) /\ fnmatch(path_str, pattern)

matches_gitignore_pattern(pk, e) ==
    IF ~pk.use_gitignore \/ pk.source_root = <<>> THEN FALSE
    ELSE \E i \in 1..Len(pk.gitignore_patterns) :
            MatchesPattern(pk.gitignore_patterns[i], e)

essential_patterns == <<n_git, n_pycache>>

\* the configuration filters without the one on ignore_extensions
ConfigIgnoreNoExtensions(pk, e) ==
    LET name == Name(e)
    IN \/ \E i \in 1..Len(pk.config.ignore_file_patterns) :
                fnmatch(name, pk.config.ignore_file_patterns[i])
       \/ /\ is_dir(e)
          /\ \E i \in 1..Len(pk.config.ignore_folder_patterns) :
                fnmatch(name, pk.config.ignore_folder_patterns[i])
       \/ \E i \in 1..Len(pk.config.ignore_paths) :
                \/ EndsWith(PathStr(e), pk.config.ignore_paths[i])
                \/ name = pk.config.ignore_paths[i]

\* the configuration filters with the extensions compared as they are spelt
ConfigIgnoreCaseSensitive(pk, e) ==
    LET name == Name(e)
    IN \/ /\ is_file(e)
          /\ \E i \in 1..Len(pk.config.ignore_extensions) :
                EndsWith(name, pk.config.ignore_extensions[i])
       \/ \E i \in 1..Len(pk.config.ignore_file_patterns) :
                fnmatch(name, pk.config.ignore_file_patterns[i])
       \/ /\ is_dir(e)
          /\ \E i \in 1..Len(pk.config.ignore_folder_patterns) :
                fnmatch(name, pk.config.ignore_folder_patterns[i])
       \/ \E i \in 1..Len(pk.config.ignore_paths) :
                \/ EndsWith(PathStr(e), pk.config.ignore_paths[i])
                \/ name = pk.config.ignore_paths[i]

\* should_ignore below the .gitignore branch: the four configuration filters
ConfigIgnore(pk, e) ==
    LET name == Name(e)
    IN \/ /\ is_file(e)
          /\ \E i \in 1..Len(pk.config.ignore_extensions) :
                EndsWith(Lower(name), Lower(pk.config.ignore_extensions[i]))
       \/ \E i \in 1..Len(pk.config.ignore_file_patterns) :
                fnmatch(name, pk.config.ignore_file_patterns[i])
       \/ /\ is_dir(e)
          /\ \E i \in 1..Len(pk.config.ignore_folder_patterns) :
                fnmatch(name, pk.config.ignore_folder_patterns[i])
       \/ \E i \in 1..Len(pk.config.ignore_paths) :
                \/ EndsWith(PathStr(e), pk.config.ignore_paths[i])
                \/ name = pk.config.ignore_paths[i]

\* a should_ignore that applies the configuration filters in both modes
should_ignore_both_modes(pk, e) ==
    \/ pk.use_gitignore /\ matches_gitignore_pattern(pk, e)
    \/ pk.use_gitignore /\ InList(Name(e), essential_patterns)
    \/ ConfigIgnore(pk, e)

\* should_ignore: the .gitignore branch, then the configuration filters
should_ignore(pk, e) ==
    IF pk.use_gitignore /\ matches_gitignore_pattern(pk, e) THEN TRUE
    ELSE IF pk.use_gitignore
         THEN \/ InList(Name(e), essential_patterns)
              \/ is_dir(e) /\ InList(Name(e), essential_patterns)
    ELSE ConfigIgnore(pk, e)

\* a capture decision that withholds a file exactly at max_content_size
_should_capture_contents_below_max(pk, e) ==
    IF ~pk.config.capture_contents THEN FALSE
    ELSE IF Len(e.bytes) >= pk.config.max_content_size THEN FALSE
    ELSE IF /\ pk.config.capture_extensions # <<>>
            /\ ~InList(Lower(Suffix(Name(e))), pk.config.capture_extensions)
         THEN FALSE
    ELSE IF /\ pk.config.no_capture_extensions # <<>>
            /\ InList(Lower(Suffix(Name(e))), pk.config.no_capture_extensions)
         THEN FALSE
    ELSE TRUE

_should_capture_contents(pk, e) ==
    IF ~pk.config.capture_contents THEN FALSE
    ELSE IF Len(e.bytes) > pk.config.max_content_size THEN FALSE
    ELSE IF /\ pk.config.capture_extensions # <<>>
            /\ ~InList(Lower(Suffix(Name(e))), pk.config.capture_extensions)
         THEN FALSE
    ELSE IF /\ pk.config.no_capture_extensions # <<>>
            /\ InList(Lower(Suffix(Name(e))), pk.config.no_capture_extensions)
         THEN FALSE
    ELSE TRUE

packager_binary_extensions ==
    <<
       <<46,120,108,115,120>>,   \* ".xlsx"
       <<46,120,108,115>>,   \* ".xls"
       <<46,100,111,99,120>>,   \* ".docx"
       <<46,100,111,99>>,   \* ".doc"
       <<46,112,112,116,120>>,   \* ".pptx"
       <<46,112,112,116>>,   \* ".ppt"
       <<46,122,105,112>>,   \* ".zip"
       <<46,114,97,114>>,   \* ".rar"
       <<46,55,122>>,   \* ".7z"
       <<46,116,97,114>>,   \* ".tar"
       <<46,103,122>>,   \* ".gz"
       <<46,98,122,50>>,   \* ".bz2"
       <<46,106,112,103>>,   \* ".jpg"
       <<46,106,112,101,103>>,   \* ".jpeg"
       <<46,112,110,103>>,   \* ".png"
       <<46,103,105,102>>,   \* ".gif"
       <<46,98,109,112>>,   \* ".bmp"
       <<46,105,99,111>>,   \* ".ico"
       <<46,116,105,102,102>>,   \* ".tiff"
       <<46,115,118,103>>,   \* ".svg"
       <<46,109,112,51>>,   \* ".mp3"
       <<46,109,112,52>>,   \* ".mp4"
       <<46,97,118,105>>,   \* ".avi"
       <<46,109,107,118>>,   \* ".mkv"
       <<46,119,97,118>>,   \* ".wav"
       <<46,111,103,103>>,   \* ".ogg"
       <<46,101,120,101>>,   \* ".exe"
       <<46,100,108,108>>,   \* ".dll"
       <<46,115,111>>,   \* ".so"
       <<46,100,121,108,105,98>>,   \* ".dylib"
       <<46,112,100,102>>,   \* ".pdf"
       <<46,98,105,110>>,   \* ".bin"
       <<46,100,97,116>>,   \* ".dat"
       <<46,100,98>>,   \* ".db"
       <<46,115,113,108,105,116,101>>   \* ".sqlite"
    >>

_is_binary_file(name) == InList(Lower(Suffix(name)), packager_binary_extensions)

cp1252_high ==
    (128 :> 8364) @@ (130 :> 8218) @@ (131 :> 402) @@ (132 :> 8222) @@ (133 :> 8230) @@ (134 :> 8224) @@ (135 :> 8225) @@ (136 :> 710) @@ (137 :> 8240)
    @@ (138 :> 352) @@ (139 :> 8249) @@ (140 :> 338) @@ (142 :> 381) @@ (145 :> 8216) @@ (146 :> 8217) @@ (147 :> 8220) @@ (148 :> 8221) @@ (149 :> 8226)
    @@ (150 :> 8211) @@ (151 :> 8212) @@ (152 :> 732) @@ (153 :> 8482) @@ (154 :> 353) @@ (155 :> 8250) @@ (156 :> 339) @@ (158 :> 382) @@ (159 :> 376)

\* bytes.decode(encoding) for the encodings _get_file_contents tries
Decode(encoding, bytes) ==
    IF encoding = "utf-8" THEN Utf8Decode(bytes)
    ELSE IF encoding = "cp1252"
         THEN IF \E i \in 1..Len(bytes) :
                    bytes[i] >= 128 /\ bytes[i] <= 159
                    /\ bytes[i] \notin DOMAIN cp1252_high
              THEN [ok |-> FALSE, text |-> <<>>]
              ELSE [ok |-> TRUE,
                    text |-> [i \in 1..Len(bytes) |->
                                IF bytes[i] \in DOMAIN cp1252_high
                                THEN cp1252_high[bytes[i]] ELSE bytes[i]]]
    ELSE Latin1Decode(bytes)   \* "latin-1", "iso-8859-1"

\* the fallback list with cp1252 tried first
fallback_encodings_cp1252_first == <<"cp1252", "latin-1", "iso-8859-1">>

\* the encodings tried after UTF-8, in order
fallback_encodings == <<"latin-1", "cp1252", "iso-8859-1">>

BinaryBlock(bytes) ==
    [type |-> "binary", encoding |-> "base64", data |-> b64encode(bytes)]

\* the loop over the fallback encodings, from the i-th on, and the binary
\* block after it
RECURSIVE TextFallback(_, _)
TextFallback(bytes, i) ==
    IF i > Len(fallback_encodings) THEN BinaryBlock(bytes)
    ELSE LET dec == Decode(fallback_encodings[i], bytes)
         IN IF dec.ok
            THEN [type |-> "text", encoding |-> fallback_encodings[i],
                  data |-> UniversalNewlines(dec.text)]
            ELSE TextFallback(bytes, i + 1)

\* a capture that tries UTF-8 before it looks at the extension
_get_file_contents_text_first(e) ==
    IF ~e.readable THEN [type |-> "error", error |-> "Permission denied"]
    ELSE LET dec == Decode("utf-8", e.bytes)
         IN IF dec.ok
            THEN [type |-> "text", encoding |-> "utf-8",
                  data |-> UniversalNewlines(dec.text)]
            ELSE IF _is_binary_file(Name(e)) THEN BinaryBlock(e.bytes)
            ELSE TextFallback(e.bytes, 1)

_get_file_contents(e) ==
    IF ~e.readable THEN [type |-> "error", error |-> "Permission denied"]
    ELSE IF _is_binary_file(Name(e)) THEN BinaryBlock(e.bytes)
    ELSE LET dec == Decode("utf-8", e.bytes)
         IN IF dec.ok
            THEN [type |-> "text", encoding |-> "utf-8",
                  data |-> UniversalNewlines(dec.text)]
            ELSE TextFallback(e.bytes, 1)

\* "extension" is None (here <<>>) when the name has no suffix
get_file_info(pk, e) ==
    LET file_info == [name |-> Name(e), type |-> "file", size |-> Len(e.bytes),
                      modified |-> isoformat(e.mtime),
                      extension |-> Lower(Suffix(Name(e)))]
    IN IF _should_capture_contents(pk, e)
       THEN [contents |-> _get_file_contents(e)] @@ file_info
       ELSE file_info

\* a sort key that forgets .lower()
KeyLessCaseSensitive(a, b) ==
    \/ ~is_file(a) /\ is_file(b)
    \/ is_file(a) = is_file(b) /\ StrLess(Name(a), Name(b))

\* the sort key (x.is_file(), x.name.lower()): a < b
KeyLess(a, b) ==
    \/ ~is_file(a) /\ is_file(b)
    \/ is_file(a) = is_file(b) /\ StrLess(Lower(Name(a)), Lower(Name(b)))

\* list.sort is stable: an item goes after every item whose key is not larger
RECURSIVE InsertSorted(_, _)
InsertSorted(sorted, x) ==
    IF sorted = <<>> THEN <<x>>
    ELSE IF KeyLess(x, sorted[Len(sorted)])
         THEN Append(InsertSorted(SubSeq(sorted, 1, Len(sorted) - 1), x),
                     sorted[Len(sorted)])
    ELSE Append(sorted, x)

RECURSIVE SortFrom(_, _, _)
SortFrom(items, i, sorted) ==
    IF i > Len(items) THEN sorted
    ELSE SortFrom(items, i + 1, InsertSorted(sorted, items[i]))

\* items.sort(key=lambda x: (x.is_file(), x.name.lower()))
SortItems(items) == SortFrom(items, 1, <<>>)

\* The walk threads acc = [contents, stats, log]: the node's children so far,
\* self.stats, and the entries should_ignore answered True for.
RECURSIVE _scan_subdirectory(_, _, _, _)

\* a loop body that counts an ignored item and goes on to visit it
ScanItemNoContinue(pk, item, acc, order) ==
    LET a == IF should_ignore(pk, item)
             THEN [acc EXCEPT !.stats.ignored = @ + 1,
                              !.log = @ \cup {item.path}]
             ELSE acc
    IN IF is_file(item)
       THEN [a EXCEPT !.stats.files = @ + 1,
                      !.contents = Append(@, get_file_info(pk, item))]
       ELSE LET sub == _scan_subdirectory(
                          pk, item, [a EXCEPT !.stats.directories = @ + 1],
                          order)
            IN [contents |-> Append(a.contents, sub.node),
                stats |-> sub.stats, log |-> sub.log]

\* the body of the loop over a directory's items
ScanItem(pk, item, acc, order) ==
    IF should_ignore(pk, item)
    THEN [acc EXCEPT !.stats.ignored = @ + 1, !.log = @ \cup {item.path}]
    ELSE IF is_file(item)
         THEN [acc EXCEPT !.stats.files = @ + 1,
                          !.contents = Append(@, get_file_info(pk, item))]
    ELSE IF is_dir(item)
         THEN LET sub == _scan_subdirectory(
                            pk, item,
                            [acc EXCEPT !.stats.directories = @ + 1], order)
              IN [contents |-> Append(acc.contents, sub.node),
                  stats |-> sub.stats, log |-> sub.log]
    ELSE acc

RECURSIVE ScanItems(_, _, _, _, _)
ScanItems(pk, items, i, acc, order) ==
    IF i > Len(items) THEN acc
    ELSE ScanItems(pk, items, i + 1, ScanItem(pk, items[i], acc, order), order)

\* a walk that probes every directory it enters for a pattern file of its
\* own and goes on with that file's patterns
_scan_subdirectory_probing(pk, dir, acc, order) ==
    IF ~dir.readable
    THEN [node |-> [name |-> Name(dir), type |-> "directory", contents |-> <<>>,
                    error |-> "Permission denied"],
          stats |-> acc.stats, log |-> acc.log]
    ELSE LET items == SortItems(iterdir(tree, dir.path, order))
             below == {[e EXCEPT !.path = <<Name(e)>>] :
                            e \in Children(tree, dir.path)}
             lg == load_gitignore(below, pk.gitignore_patterns)
             here == IF lg.use_gitignore
                     THEN [pk EXCEPT !.use_gitignore = TRUE,
                                     !.gitignore_patterns = lg.gitignore_patterns]
                     ELSE pk
             r == ScanItems(here, items, 1, [acc EXCEPT !.contents = <<>>], order)
         IN [node |-> [name |-> Name(dir), type |-> "directory",
                       contents |-> r.contents],
             stats |-> r.stats, log |-> r.log]

\* _scan_subdirectory: [node, stats, log]
_scan_subdirectory(pk, dir, acc, order) ==
    IF ~dir.readable
    THEN [node |-> [name |-> Name(dir), type |-> "directory", contents |-> <<>>,
                    error |-> "Permission denied"],
          stats |-> acc.stats, log |-> acc.log]
    ELSE LET items == SortItems(iterdir(tree, dir.path, order))
             r == ScanItems(pk, items, 1, [acc EXCEPT !.contents = <<>>], order)
         IN [node |-> [name |-> Name(dir), type |-> "directory",
                       contents |-> r.contents],
             stats |-> r.stats, log |-> r.log]

\* scan_directory after load_gitignore: [node, stats, log]
scan_directory(pk, order, now) ==
    LET items == SortItems(iterdir(tree, <<>>, order))
        r == ScanItems(pk, items, 1,
                       [contents |-> <<>>,
                        stats |-> [directories |-> 0, files |-> 0, ignored |-> 0],
                        log |-> {}],
                       order)
    IN [node |-> [name |-> root_path, type |-> "directory",
                  path |-> <<Ch.slash>> \o root_path,
                  generated_at |-> isoformat(now),
                  contents |-> r.contents],
        stats |-> r.stats, log |-> r.log]

-----------------------------------------------------------------------------
(* DirectoryExtractor *)

\* The extraction threads x = [fs, stats]: the destination on disk (its root
\* is the entry of path <<>>) and self.stats.

Exists(fs, path) == \E e \in fs : e.path = path

IsDirAt(fs, path) == \E e \in fs : e.path = path /\ is_dir(e)

IsFileAt(fs, path) == \E e \in fs : e.path = path /\ is_file(e)

Parent(path) == SubSeq(path, 1, Len(path) - 1)

\* the destination's parent directory exists
ParentIsDir(fs, path) == path = <<>> \/ IsDirAt(fs, Parent(path))

Prefixes(path) == {SubSeq(path, 1, k) : k \in 0..Len(path)}

\* str.encode(encoding) as open(..., "w", encoding=encoding) does it:
\* [ok, bytes]; ok is FALSE for a UnicodeEncodeError or an unknown encoding
Encode(encoding, text) ==
    IF encoding = "utf-8" THEN [ok |-> TRUE, bytes |-> Utf8Encode(text)]
    ELSE IF encoding \in {"latin-1", "iso-8859-1"} THEN Latin1Encode(text)
    ELSE IF encoding = "cp1252"
         THEN IF \A i \in 1..Len(text) :
                    \/ text[i] < 128
                    \/ text[i] >= 160 /\ text[i] <= 255
                    \/ \E b \in DOMAIN cp1252_high : cp1252_high[b] = text[i]
              THEN [ok |-> TRUE,
                    bytes |-> [i \in 1..Len(text) |->
                                IF text[i] <= 255 /\ ~(text[i] >= 128 /\ text[i] <= 159)
                                THEN text[i]
                                ELSE CHOOSE b \in DOMAIN cp1252_high :
                                        cp1252_high[b] = text[i]]]
              ELSE [ok |-> FALSE, bytes |-> <<>>]
    ELSE [ok |-> FALSE, bytes |-> <<>>]

\* the file at path replaced by one of the given bytes and mtime
WriteFile(fs, path, bytes, mtime) ==
    {e \in fs : e.path # path}
    \cup {[path |-> path, kind |-> "file", bytes |-> bytes, readable |-> TRUE,
           mtime |-> mtime]}

\* os.utime(path, (t, t))
Utime(fs, path, mtime) ==
    {IF e.path = path THEN [e EXCEPT !.mtime = mtime] ELSE e : e \in fs}

\* datetime.fromisoformat(modified).timestamp(), in nanoseconds
fromisoformat(modified) == modified * 1000

Failed(x) == [x EXCEPT !.stats.errors = @ + 1]

\* _create_directory: mkdir(parents=True, exist_ok=True) unless the path
\* exists and overwrite is off; a file in the way is an error
_create_directory(x, path, ow, now) ==
    IF Exists(x.fs, path) /\ ~ow THEN x
    ELSE IF \E p \in Prefixes(path) : IsFileAt(x.fs, p) THEN Failed(x)
    ELSE [fs |-> x.fs \cup {[path |-> p, kind |-> "dir", bytes |-> <<>>,
                              readable |-> TRUE, mtime |-> now] :
                                p \in {q \in Prefixes(path) : ~Exists(x.fs, q)}},
          stats |-> [x.stats EXCEPT !.directories = @ + 1]]

\* path.touch(): an empty file where there is none, a new mtime otherwise
Touch(fs, path, now) ==
    IF Exists(fs, path) THEN Utime(fs, path, now)
    ELSE WriteFile(fs, path, <<>>, now)

\* the end of _extract_file: the file counted, then its timestamp set
Counted(x, file_data, path) ==
    [fs |-> IF "modified" \in DOMAIN file_data
            THEN Utime(x.fs, path, fromisoformat(file_data.modified))
            ELSE x.fs,
     stats |-> [x.stats EXCEPT !.files = @ + 1]]

_extract_file(x, file_data, path, ow, now) ==
    IF Exists(x.fs, path) /\ ~ow THEN x
    ELSE IF "contents" \notin DOMAIN file_data
         THEN IF ~ParentIsDir(x.fs, path) THEN Failed(x)
              ELSE [fs |-> Touch(x.fs, path, now),
                    stats |-> [x.stats EXCEPT !.files = @ + 1]]
    ELSE LET contents == file_data.contents
         IN IF contents.type = "text"
            THEN IF ~ParentIsDir(x.fs, path) \/ IsDirAt(x.fs, path) THEN Failed(x)
                 ELSE LET enc == Encode(contents.encoding,
                                        WriteNewlines(contents.data))
                      IN IF ~enc.ok
                         THEN Failed([x EXCEPT !.fs = WriteFile(@, path, <<>>, now)])
                         ELSE Counted([x EXCEPT !.fs = WriteFile(@, path, enc.bytes, now)],
                                      file_data, path)
            ELSE IF contents.type = "binary"
            THEN IF contents.encoding # "base64" THEN Failed(x)
                 ELSE LET dec == b64decode(contents.data)
                      IN IF ~dec.ok \/ ~ParentIsDir(x.fs, path) \/ IsDirAt(x.fs, path)
                         THEN Failed(x)
                         ELSE Counted([x EXCEPT !.fs = WriteFile(@, path, dec.bytes, now)],
                                      file_data, path)
            ELSE IF contents.type = "error"
            THEN IF ~ParentIsDir(x.fs, path) THEN Failed(x)
                 ELSE Counted([x EXCEPT !.fs = Touch(@, path, now)], file_data, path)
            ELSE Failed(x)

\* Where directory_path / item['name'] leads.  A place on the disk is given
\* by its path from the destination's root; a path that begins with ".."
\* starts at the directory that holds the destination, a path that begins
\* with "/" at the root of the file system.
n_up == <<46, 46>>   \* ".."

n_root == <<47>>   \* "/"

\* the parts of a name between its "/"s, from its i-th character on
RECURSIVE SplitFrom(_, _, _)
SplitFrom(name, i, part) ==
    IF i > Len(name) THEN <<part>>
    ELSE IF name[i] = Ch.slash THEN <<part>> \o SplitFrom(name, i + 1, <<>>)
    ELSE SplitFrom(name, i + 1, Append(part, name[i]))

\* pathlib drops empty parts and "." parts
Parts(name) ==
    SelectSeq(SplitFrom(name, 1, <<>>), LAMBDA part : part \notin {<<>>, <<Ch.dot>>})

\* one part further: ".." leads to the directory above (the directory of
\* path is there in every run at hand, the extractor having made it)
Step(path, part) ==
    IF part # n_up THEN Append(path, part)
    ELSE IF path = <<n_root>> THEN path
    ELSE IF path = <<>> \/ path[Len(path)] = n_up THEN Append(path, n_up)
    ELSE Parent(path)

RECURSIVE Steps(_, _, _)
Steps(path, parts, i) ==
    IF i > Len(parts) THEN path
    ELSE Steps(Step(path, parts[i]), parts, i + 1)

\* a name that is a path of its own: one with a "/", or "." or ".."
IsPathName(name) == HasChar(name, Ch.slash) \/ name \in {<<Ch.dot>>, n_up}

\* directory_path / name: a name that begins with "/" replaces the directory
PathJoin(dir_path, name) ==
    IF ~IsPathName(name) THEN Append(dir_path, name)
    ELSE IF name[1] = Ch.slash THEN Steps(<<n_root>>, Parts(name), 1)
    ELSE Steps(dir_path, Parts(name), 1)

\* a join that keeps only the last part of a name and never leaves the
\* directory
PathJoinInside(dir_path, name) ==
    IF ~IsPathName(name) THEN Append(dir_path, name)
    ELSE LET parts == SelectSeq(Parts(name), LAMBDA part : part # n_up)
         IN IF parts = <<>> THEN dir_path
            ELSE Append(dir_path, parts[Len(parts)])

RECURSIVE _extract_subdirectory(_, _, _, _, _)

\* the body of the loop over a directory node's contents
ExtractItem(x, item, dir_path, ow, now) ==
    IF "name" \notin DOMAIN item \/ "type" \notin DOMAIN item THEN Failed(x)
    ELSE IF item.type = "directory"
         THEN _extract_subdirectory(x, item, PathJoin(dir_path, item.name), ow, now)
    ELSE IF item.type = "file"
         THEN _extract_file(x, item, PathJoin(dir_path, item.name), ow, now)
    ELSE x

\* a loop over the contents that ends at the first item that fails
RECURSIVE ExtractItemsUntilError(_, _, _, _, _, _)
ExtractItemsUntilError(x, contents, i, dir_path, ow, now) ==
    IF i > Len(contents) THEN x
    ELSE LET y == ExtractItem(x, contents[i], dir_path, ow, now)
         IN IF y.stats.errors > x.stats.errors THEN y
            ELSE ExtractItemsUntilError(y, contents, i + 1, dir_path, ow, now)

RECURSIVE ExtractItems(_, _, _, _, _, _)
ExtractItems(x, contents, i, dir_path, ow, now) ==
    IF i > Len(contents) THEN x
    ELSE ExtractItems(ExtractItem(x, contents[i], dir_path, ow, now),
                      contents, i + 1, dir_path, ow, now)

_extract_subdirectory(x, directory_data, path, ow, now) ==
    ExtractItems(_create_directory(x, path, ow, now),
                 IF "contents" \in DOMAIN directory_data
                 THEN directory_data.contents ELSE <<>>,
                 1, path, ow, now)

\* extract_directory(directory_data, output_path): the statistics reset, the
\* root created, the contents extracted
extract_directory(fs, directory_data, ow, now) ==
    ExtractItems(_create_directory(
                    [fs |-> fs,
                     stats |-> [directories |-> 0, files |-> 0, errors |-> 0]],
                    <<>>, ow, now),
                 IF "contents" \in DOMAIN directory_data
                 THEN directory_data.contents ELSE <<>>,
                 1, <<>>, ow, now)


-----------------------------------------------------------------------------
(* The packager's and the extractor's run *)

\* a configuration file that ignores only .git directories and captures
\* every file, as _validate_and_merge_config returns it
PlainConfig ==
    [DefaultConfig EXCEPT !.no_capture_extensions = <<>>,
                          !.ignore_extensions = <<>>,
                          !.ignore_file_patterns = <<>>,
                          !.ignore_folder_patterns = << n_git >>,
                          !.ignore_paths = <<>>]

Configs == {DefaultConfig, PlainConfig}

\* the most scans one packager makes
MaxScans == 2

ZeroValidatorStats ==
    [total_files_original |-> 0, total_files_extracted |-> 0,
     files_matched |-> 0, files_size_mismatch |-> 0,
     files_content_mismatch |-> 0, files_missing |-> 0, files_extra |-> 0,
     total_dirs_original |-> 0, total_dirs_extracted |-> 0,
     dirs_matched |-> 0, dirs_missing |-> 0, dirs_extra |-> 0,
     files_ignored_by_gitignore |-> 0, dirs_ignored_by_gitignore |-> 0]

\* DirectoryValidator.__init__'s config_patterns
EmptyConfigPatterns ==
    [ignore_file_patterns |-> <<>>, ignore_folder_patterns |-> <<>>,
     ignore_paths |-> <<>>, ignore_extensions |-> <<>>]

\* DirectoryValidator.__init__: a validator that has compared nothing yet
ValidatorFresh ==
    /\ vstats = ZeroValidatorStats
    /\ errors = <<>>
    /\ warnings = <<>>
    /\ files_match = "none"
    /\ config_patterns = EmptyConfigPatterns
    /\ dirs_match = "none"
    /\ validation_passed = "none"

\* no validator at work
ValidatorIdle ==
    /\ original_files = <<>>
    /\ extracted_files = <<>>
    /\ ValidatorFresh

\* DirectoryPackager.__init__: a packager that has scanned nothing yet
PackagerFresh ==
    /\ stats = [directories |-> 0, files |-> 0, ignored |-> 0]
    /\ gitignore_patterns = <<>>
    /\ use_gitignore = FALSE
    /\ source_root = <<>>
    /\ ignoredLog = {}
    /\ docs = <<>>
    /\ clock = 8000

\* DirectoryExtractor.__init__: an extractor that has extracted nothing yet
ExtractorFresh ==
    /\ overwrite = FALSE
    /\ xstats = [directories |-> 0, files |-> 0, errors |-> 0]
    /\ extracted = FALSE

\* DirectoryPackager.__init__ and DirectoryExtractor.__init__, before a tree
\* of Trees and an empty destination
Init ==
    /\ tree \in Trees
    /\ config \in Configs
    /\ user_config = <<>>
    /\ stats = [directories |-> 0, files |-> 0, ignored |-> 0]
    /\ gitignore_patterns = <<>>
    /\ use_gitignore = FALSE
    /\ source_root = <<>>
    /\ ignoredLog = {}
    /\ docs = <<>>
    /\ clock = 8000
    /\ overwrite = FALSE
    /\ xstats = [directories |-> 0, files |-> 0, errors |-> 0]
    /\ dest = {}
    /\ extracted = FALSE
    /\ ValidatorIdle

\* packager.scan_directory(root_path), the filesystem enumerating every
\* directory in the given order
Scan ==
    /\ Len(docs) < MaxScans
    /\ ~extracted
    /\ \E order \in IterOrders :
        LET lg == load_gitignore(tree, gitignore_patterns)
            pk == [config |-> config, use_gitignore |-> lg.use_gitignore,
                   gitignore_patterns |-> lg.gitignore_patterns,
                   source_root |-> root_path]
        IN \E r \in {scan_directory(pk, order, clock)} :
           /\ source_root' = root_path
           /\ use_gitignore' = lg.use_gitignore
           /\ gitignore_patterns' = lg.gitignore_patterns
           /\ stats' = r.stats
           /\ ignoredLog' = r.log
           /\ docs' = Append(docs, r.node)
    /\ clock' = clock + 1000
    /\ UNCHANGED <<tree, config, user_config>>
    /\ UNCHANGED extractVars
    /\ UNCHANGED validateVars

\* DirectoryExtractor(overwrite=ow).extract_directory(doc, output_dir) on the
\* document of the last scan
Extract ==
    /\ docs # <<>>
    /\ ~extracted
    /\ \E ow \in BOOLEAN :
        \E x \in {extract_directory(dest, docs[Len(docs)], ow, clock)} :
           /\ overwrite' = ow
           /\ dest' = x.fs
           /\ xstats' = x.stats
    /\ extracted' = TRUE
    /\ clock' = clock + 1000
    /\ UNCHANGED <<tree, config, stats, gitignore_patterns, use_gitignore,
                   source_root, ignoredLog, docs, user_config>>
    /\ UNCHANGED validateVars

Next == Scan \/ Extract

Spec == Init /\ [][Next]_vars

-----------------------------------------------------------------------------
(* DirectoryValidator *)

\* original_files and extracted_files map a root-relative path (a string) to
\* what the validator's scan recorded of the file there: its size, and, for
\* get_file_hash, what the file holds (content stands for its bytes) and
\* whether it can be opened.  The comparison threads v = [stats, errors,
\* warnings, files_match]; an error or warning is kept as its kind and the
\* path it names.

\* is_binary_file's binary_extensions
validator_binary_extensions ==
    <<
       <<46,120,108,115,120>>,   \* ".xlsx"
       <<46,120,108,115>>,   \* ".xls"
       <<46,100,111,99>>,   \* ".doc"
       <<46,100,111,99,120>>,   \* ".docx"
       <<46,112,100,102>>,   \* ".pdf"
       <<46,122,105,112>>,   \* ".zip"
       <<46,114,97,114>>,   \* ".rar"
       <<46,55,122>>,   \* ".7z"
       <<46,116,97,114>>,   \* ".tar"
       <<46,103,122>>,   \* ".gz"
       <<46,101,120,101>>,   \* ".exe"
       <<46,100,108,108>>,   \* ".dll"
       <<46,115,111>>,   \* ".so"
       <<46,100,121,108,105,98>>,   \* ".dylib"
       <<46,98,105,110>>,   \* ".bin"
       <<46,105,109,103>>,   \* ".img"
       <<46,105,115,111>>,   \* ".iso"
       <<46,109,112,51>>,   \* ".mp3"
       <<46,109,112,52>>,   \* ".mp4"
       <<46,97,118,105>>,   \* ".avi"
       <<46,109,107,118>>,   \* ".mkv"
       <<46,106,112,103>>,   \* ".jpg"
       <<46,106,112,101,103>>,   \* ".jpeg"
       <<46,112,110,103>>,   \* ".png"
       <<46,103,105,102>>,   \* ".gif"
       <<46,98,109,112>>,   \* ".bmp"
       <<46,116,105,102,102>>   \* ".tiff"
    >>

\* any(file_path.lower().endswith(ext) for ext in binary_extensions)
is_binary_file(file_path) ==
    \E i \in 1..Len(validator_binary_extensions) :
        EndsWith(Lower(file_path), validator_binary_extensions[i])

Min(a, b) == IF a <= b THEN a ELSE b

\* a tolerance that takes the smaller of 500 bytes and 1%
get_size_tolerance_min(file_path, original_size) ==
    IF is_binary_file(file_path)
    THEN Min(500, original_size \div 100)
    ELSE 0

\* max(500, int(original_size * 0.01)) for a binary file, 0 otherwise; for
\* the sizes at hand int(original_size * 0.01) is original_size \div 100
get_size_tolerance(file_path, original_size) ==
    IF is_binary_file(file_path)
    THEN Max(500, original_size \div 100)
    ELSE 0

\* limits that already exclude a file of exactly 50 MB, or a binary file of
\* exactly 1 MB
should_compare_content_below(file_path, file_size) ==
    IF file_size >= 50 * 1024 * 1024 THEN FALSE
    ELSE IF is_binary_file(file_path) /\ file_size >= 1024 * 1024 THEN FALSE
    ELSE TRUE

should_compare_content(file_path, file_size) ==
    IF file_size > 50 * 1024 * 1024 THEN FALSE
    ELSE IF is_binary_file(file_path) /\ file_size > 1024 * 1024 THEN FALSE
    ELSE TRUE

\* get_file_hash: the digest of the file's bytes (two files have the same
\* digest exactly when they have the same size and content), or "" (here
\* <<>>) and a warning when the file cannot be read
get_file_hash(v, file_path, info) ==
    IF info.readable
    THEN [v |-> v, hash |-> <<info.size, info.content>>]
    ELSE [v |-> [v EXCEPT !.warnings =
                    Append(@, [kind |-> "hash", path |-> file_path])],
          hash |-> <<>>]

log_error(v, kind, file_path) ==
    [v EXCEPT !.errors = Append(@, [kind |-> kind, path |-> file_path])]

log_warning(v, kind, file_path) ==
    [v EXCEPT !.warnings = Append(@, [kind |-> kind, path |-> file_path])]

\* compare_files' branch for a file that exists in both trees
CompareBoth(v, file_path, orig_info, extr_info) ==
    LET size_diff == Abs(orig_info.size - extr_info.size)
        size_tolerance == get_size_tolerance(file_path, orig_info.size)
        v1 == IF size_diff > size_tolerance
              THEN [log_error(v, "size_mismatch", file_path)
                        EXCEPT !.stats.files_size_mismatch = @ + 1,
                               !.files_match = "False"]
              ELSE v
    IN IF should_compare_content(file_path, orig_info.size)
       THEN LET o == get_file_hash(v1, file_path, orig_info)
                x == get_file_hash(o.v, file_path, extr_info)
                v2 == x.v
            IN IF o.hash # <<>> /\ x.hash # <<>> /\ o.hash # x.hash
               THEN IF is_binary_file(file_path) /\ size_diff <= size_tolerance
                    THEN [v2 EXCEPT !.stats.files_matched = @ + 1]
                    ELSE [log_error(v2, "content_mismatch", file_path)
                            EXCEPT !.stats.files_content_mismatch = @ + 1,
                                   !.files_match = "False"]
               ELSE IF o.hash # <<>> /\ x.hash # <<>>
                    THEN [v2 EXCEPT !.stats.files_matched = @ + 1]
               ELSE v2
       ELSE [log_warning(v1, "skipped", file_path)
                EXCEPT !.stats.files_matched = @ + 1]

\* the body of compare_files' loop
\* validator.py 393-396 with a file absent from the extracted tree reported
\* as a warning only
CompareFileMissingWarned(v, file_path, orig, extr) ==
    IF file_path \in DOMAIN orig /\ file_path \in DOMAIN extr
    THEN CompareBoth(v, file_path, orig[file_path], extr[file_path])
    ELSE IF file_path \in DOMAIN orig
         THEN [log_warning(v, "missing", file_path)
                    EXCEPT !.stats.files_missing = @ + 1]
    ELSE [log_warning(v, "extra", file_path)
            EXCEPT !.stats.files_extra = @ + 1]

CompareFile(v, file_path, orig, extr) ==
    IF file_path \in DOMAIN orig /\ file_path \in DOMAIN extr
    THEN CompareBoth(v, file_path, orig[file_path], extr[file_path])
    ELSE IF file_path \in DOMAIN orig
         THEN [log_error(v, "missing", file_path)
                    EXCEPT !.stats.files_missing = @ + 1,
                           !.files_match = "False"]
    ELSE [log_warning(v, "extra", file_path)
            EXCEPT !.stats.files_extra = @ + 1]

\* sorted(all_files)
RECURSIVE sorted(_)
sorted(S) ==
    IF S = {} THEN <<>>
    ELSE LET m == CHOOSE s \in S : \A t \in S \ {s} : StrLess(s, t)
         IN <<m>> \o sorted(S \ {m})

RECURSIVE CompareLoop(_, _, _, _, _)
CompareLoop(v, paths, i, orig, extr) ==
    IF i > Len(paths) THEN v
    ELSE CompareLoop(CompareFile(v, paths[i], orig, extr), paths, i + 1,
                     orig, extr)

\* compare_files(original_files, extracted_files); what it returns is kept
\* in files_match
compare_files(v, orig, extr) ==
    LET all_files == DOMAIN orig \cup DOMAIN extr
        v0 == [v EXCEPT !.stats.total_files_original = Cardinality(DOMAIN orig),
                        !.stats.total_files_extracted = Cardinality(DOMAIN extr),
                        !.files_match = "True"]
    IN CompareLoop(v0, sorted(all_files), 1, orig, extr)

\* The file tables a validator is handed: a.txt and b.bin, each absent, on
\* one side only, or on both sides with an original size, a difference in
\* size, the same or another content, and an extracted file that can or
\* cannot be read.
ValidatorPaths == {n_a_txt, n_b_bin}

OriginalSizes == {5, 50000, 60000, 2000000}

\* sizes at and one byte above should_compare_content's two limits
LimitSizes == {1024 * 1024, 1024 * 1024 + 1,
               50 * 1024 * 1024, 50 * 1024 * 1024 + 1}

LimitDeltas == {0, 10, 600000}

SizeDeltas == {0, 10, 0 - 10, 500, 501, 600, 601, 0 - 600}

FileInfo(size, content, readable) ==
    [size |-> size, content |-> content, readable |-> readable]

\* a path's files in the two trees, each a sequence of none or one
FilePairs ==
    {[orig |-> <<>>, extr |-> <<>>]}
    \cup {[orig |-> <<FileInfo(s, 1, TRUE)>>, extr |-> <<>>] : s \in {5}}
    \cup {[orig |-> <<>>, extr |-> <<FileInfo(s, 1, TRUE)>>] : s \in {5}}
    \cup {[orig |-> <<FileInfo(c[1], 1, TRUE)>>,
           extr |-> <<FileInfo(c[1] + c[2], c[3], c[4])>>] :
            c \in {t \in OriginalSizes \X SizeDeltas \X {1, 2} \X BOOLEAN :
                    t[1] + t[2] >= 0}}
    \cup {[orig |-> <<FileInfo(c[1], 1, TRUE)>>,
           extr |-> <<FileInfo(c[1] + c[2], c[3], TRUE)>>] :
            c \in LimitSizes \X LimitDeltas \X {1, 2}}

FileTable(pairs, side) ==
    [p \in {q \in ValidatorPaths : pairs[q][side] # <<>>} |-> pairs[p][side][1]]

\* DirectoryValidator.__init__, with the two file tables of validate() at
\* hand; no packager and no extractor at work
InitV ==
    /\ \E pairs \in [ValidatorPaths -> FilePairs] :
        /\ original_files = FileTable(pairs, "orig")
        /\ extracted_files = FileTable(pairs, "extr")
    /\ ValidatorFresh
    /\ tree = {}
    /\ config = DefaultConfig
    /\ user_config = <<>>
    /\ PackagerFresh
    /\ dest = {}
    /\ ExtractorFresh

\* validator.compare_files(original_files, extracted_files)
CompareFiles ==
    /\ files_match = "none"
    /\ \E v \in {compare_files([stats |-> vstats, errors |-> errors,
                                 warnings |-> warnings,
                                 files_match |-> files_match],
                                original_files, extracted_files)} :
          /\ vstats' = v.stats
          /\ errors' = v.errors
          /\ warnings' = v.warnings
          /\ files_match' = v.files_match
    /\ UNCHANGED <<original_files, extracted_files, config_patterns,
                   dirs_match, validation_passed>>
    /\ UNCHANGED scanVars
    /\ UNCHANGED extractVars

NextV == CompareFiles

SpecV == InitV /\ [][NextV]_vars

-----------------------------------------------------------------------------
(* DirectoryValidator.validate *)

\* While a validator is at work, use_gitignore, gitignore_patterns and
\* source_root hold its fields of these names, tree is the original
\* directory and dest the extracted one (no entry of path <<>>: the
\* directory does not exist).  vi = [use_gitignore, gitignore_patterns,
\* source_root, config_patterns] is the validator's ignore state.

\* load_config_patterns: the four lists of the config.json next to
\* validator.py; cfgfile is <<>> when there is no such file and <<c>> when it
\* holds the configuration c
load_config_patterns(config_patterns_before, cfgfile) ==
    IF cfgfile = <<>> THEN config_patterns_before
    ELSE [ignore_file_patterns |-> cfgfile[1].ignore_file_patterns,
          ignore_folder_patterns |-> cfgfile[1].ignore_folder_patterns,
          ignore_paths |-> cfgfile[1].ignore_paths,
          ignore_extensions |-> cfgfile[1].ignore_extensions]

\* DirectoryValidator.load_gitignore
validator_load_gitignore(t, vi, cfgfile) ==
    LET found == {e \in Children(t, <<>>) : Name(e) = n_gitignore /\ is_file(e)}
        rooted == [vi EXCEPT !.source_root = root_path]
    IN IF found = {}
       THEN [rooted EXCEPT !.use_gitignore = FALSE,
                           !.config_patterns = load_config_patterns(@, cfgfile)]
       ELSE LET e == CHOOSE x \in found : TRUE
                dec == Utf8Decode(e.bytes)
            IN IF ~e.readable \/ ~dec.ok
               THEN [rooted EXCEPT !.use_gitignore = FALSE]
               ELSE [rooted EXCEPT
                        !.use_gitignore = TRUE,
                        !.gitignore_patterns =
                            PatternLines(SplitLines(UniversalNewlines(dec.text),
                                                    1, <<>>))]

\* DirectoryValidator.matches_gitignore_pattern
validator_matches_gitignore_pattern(vi, e) ==
    IF ~vi.use_gitignore \/ vi.source_root = <<>> THEN FALSE
    ELSE LET path_str == JoinPath(e.path)
             name == Name(e)
         IN \E i \in 1..Len(vi.gitignore_patterns) :
                LET pattern == vi.gitignore_patterns[i]
                IN IF StartsWith(pattern, <<Ch.bang>>) THEN FALSE
                   ELSE IF EndsWith(pattern, <<Ch.slash>>)
                        THEN /\ is_dir(e)
                             /\ LET dir_pattern ==
                                        SubSeq(pattern, 1, Len(pattern) - 1)
                                IN \/ fnmatch(name, dir_pattern)
                                   \/ fnmatch(path_str, dir_pattern)
                   ELSE \/ fnmatch(name, pattern)
                        \/ fnmatch(path_str, pattern)
                        \/ HasChar(pattern, Ch.slash) /\ fnmatch(path_str, pattern)

\* DirectoryValidator.matches_config_pattern
matches_config_pattern(vi, e) ==
    IF vi.source_root = <<>> THEN FALSE
    ELSE LET path_str == JoinPath(e.path)
             name == Name(e)
             cp == vi.config_patterns
         IN \/ \E i \in 1..Len(cp.ignore_extensions) :
                    EndsWith(Lower(name), Lower(cp.ignore_extensions[i]))
            \/ \E i \in 1..Len(cp.ignore_file_patterns) :
                    \/ fnmatch(name, cp.ignore_file_patterns[i])
                    \/ fnmatch(path_str, cp.ignore_file_patterns[i])
            \/ /\ is_dir(e)
               /\ \E i \in 1..Len(cp.ignore_folder_patterns) :
                    \/ fnmatch(name, cp.ignore_folder_patterns[i])
                    \/ fnmatch(path_str, cp.ignore_folder_patterns[i])
            \/ \E i \in 1..Len(cp.ignore_paths) :
                    \/ fnmatch(name, cp.ignore_paths[i])
                    \/ fnmatch(path_str, cp.ignore_paths[i])

\* should_ignore's default_ignore_patterns
default_ignore_patterns == {n_git, n_pycache}

\* DirectoryValidator.should_ignore; path.parts are the names of the root's
\* path and those below it
validator_should_ignore(vi, e) ==
    IF vi.use_gitignore /\ validator_matches_gitignore_pattern(vi, e) THEN TRUE
    ELSE IF vi.use_gitignore
         THEN \/ InList(Name(e), essential_patterns)
              \/ is_dir(e) /\ InList(Name(e), essential_patterns)
    ELSE IF matches_config_pattern(vi, e) THEN TRUE
    ELSE IF Name(e) \in default_ignore_patterns THEN TRUE
    ELSE \/ root_path \in default_ignore_patterns
         \/ \E k \in 1..Len(e.path) : e.path[k] \in default_ignore_patterns

\* The walk threads w = [files, dirs, stats]: the two maps from a
\* root-relative path string to what was recorded, and self.stats.
RECURSIVE walk_directory(_, _, _, _, _)

\* the body of walk_directory's loop
WalkItem(t, item, vi, is_original, w) ==
    IF is_original /\ validator_should_ignore(vi, item)
    THEN IF is_file(item)
         THEN [w EXCEPT !.stats.files_ignored_by_gitignore = @ + 1]
         ELSE [w EXCEPT !.stats.dirs_ignored_by_gitignore = @ + 1]
    ELSE LET rel_path_str == JoinPath(item.path)
         IN IF is_file(item)
            THEN [w EXCEPT !.files =
                    (rel_path_str :> [size |-> Len(item.bytes),
                                      content |-> item.bytes,
                                      readable |-> item.readable]) @@ @]
            ELSE walk_directory(
                    t, item.path, vi, is_original,
                    [w EXCEPT !.dirs =
                        (rel_path_str :> [modified |-> item.mtime]) @@ @])

RECURSIVE WalkItems(_, _, _, _, _, _)
WalkItems(t, items, i, vi, is_original, w) ==
    IF i > Len(items) THEN w
    ELSE WalkItems(t, items, i + 1, vi, is_original,
                   WalkItem(t, items[i], vi, is_original, w))

\* iterdir() on a directory that may not be listed raises PermissionError,
\* which walk_directory passes over
walk_directory(t, current_path, vi, is_original, w) ==
    IF \E e \in t : e.path = current_path /\ is_dir(e) /\ ~e.readable
    THEN w
    ELSE WalkItems(t, ByName(Children(t, current_path)), 1, vi, is_original, w)

\* DirectoryValidator.scan_directory(path, is_original) on a directory that
\* exists
validator_scan_directory(t, vi, is_original, stats_before) ==
    walk_directory(t, <<>>, vi, is_original,
                   [files |-> <<>>, dirs |-> <<>>, stats |-> stats_before])

\* the body of compare_directories' loop
CompareDir(v, dir_path, original_dirs, extracted_dirs) ==
    IF dir_path \in DOMAIN original_dirs /\ dir_path \in DOMAIN extracted_dirs
    THEN [v EXCEPT !.stats.dirs_matched = @ + 1]
    ELSE IF dir_path \in DOMAIN original_dirs
         THEN [log_error(v, "dir_missing", dir_path)
                    EXCEPT !.stats.dirs_missing = @ + 1,
                           !.dirs_match = "False"]
    ELSE [log_warning(v, "dir_extra", dir_path)
            EXCEPT !.stats.dirs_extra = @ + 1]

RECURSIVE CompareDirLoop(_, _, _, _, _)
CompareDirLoop(v, paths, i, original_dirs, extracted_dirs) ==
    IF i > Len(paths) THEN v
    ELSE CompareDirLoop(CompareDir(v, paths[i], original_dirs, extracted_dirs),
                        paths, i + 1, original_dirs, extracted_dirs)

\* compare_directories(original_dirs, extracted_dirs); what it returns is
\* kept in dirs_match
compare_directories(v, original_dirs, extracted_dirs) ==
    LET all_dirs == DOMAIN original_dirs \cup DOMAIN extracted_dirs
        v0 == [v EXCEPT
                !.stats.total_dirs_original = Cardinality(DOMAIN original_dirs),
                !.stats.total_dirs_extracted = Cardinality(DOMAIN extracted_dirs),
                !.dirs_match = "True"]
    IN CompareDirLoop(v0, sorted(all_dirs), 1, original_dirs, extracted_dirs)

\* the entries below the extracted directory's root
Below(fs) == {e \in fs : e.path # <<>>}

\* validate(): r = [vi, v, original_files, extracted_files, passed] after the
\* call; the original directory exists in every state of the model
validate(t, fs, vi, v, cfgfile) ==
    IF fs = {}
    THEN [vi |-> vi, v |-> log_error(v, "no_extracted_directory", <<>>),
          original_files |-> <<>>, extracted_files |-> <<>>,
          passed |-> "False"]
    ELSE LET vi1 == validator_load_gitignore(t, vi, cfgfile)
             o == validator_scan_directory(t, vi1, TRUE, v.stats)
             x == validator_scan_directory(Below(fs), vi1, FALSE, o.stats)
             v1 == compare_directories([v EXCEPT !.stats = x.stats],
                                       o.dirs, x.dirs)
             v2 == compare_files(v1, o.files, x.files)
         IN [vi |-> vi1, v |-> v2,
             original_files |-> o.files, extracted_files |-> x.files,
             passed |-> IF /\ v2.dirs_match = "True"
                           /\ v2.files_match = "True"
                           /\ Len(v2.errors) = 0
                        THEN "True" ELSE "False"]

\* The directories a validator is pointed at.  The original holds some of
\* a.txt, b.bin, sub (a directory with M.txt, or a file), x.log and a
\* .gitignore of the one pattern "*.log"; the extracted directory is missing
\* or holds some of the same, a.txt and b.bin with the same or other bytes.
s_HELLO == <<72, 69, 76, 76, 79>>   \* "HELLO"

s_hello_bang == <<104, 101, 108, 108, 111, 33>>   \* "hello!"

s_star_log == <<42, 46, 108, 111, 103, 10>>   \* "*.log\n"

\* the unions of one choice per family of entry sets
RECURSIVE Combine(_)
Combine(families) ==
    IF families = <<>> THEN {{}}
    ELSE {a \cup b : a \in Head(families), b \in Combine(Tail(families))}

SubVariants ==
    {{}, {Dir(<<n_sub>>), File(<<n_sub, n_M_txt>>, s_Hi)}, {File(<<n_sub>>, s_Hi)}}

OriginalTrees ==
    Combine(<< {{}, {File(<<n_a_txt>>, s_hello)}},
               {{}, {File(<<n_b_bin>>, <<0, 0, 0, 0>>)}},
               SubVariants,
               {{}, {File(<<n_x_log>>, s_Hi)}},
               {{}, {File(<<n_gitignore>>, s_star_log)}} >>)

ExtractedTrees ==
    {{}} \cup
    {fs \cup {Dir(<<>>)} : fs \in
        Combine(<< {{}, {File(<<n_a_txt>>, s_hello)},
                    {File(<<n_a_txt>>, s_HELLO)},
                    {File(<<n_a_txt>>, s_hello_bang)}},
                   {{}, {File(<<n_b_bin>>, <<0, 0, 0, 0>>)},
                    {File(<<n_b_bin>>, <<1, 1, 1, 1>>)},
                    {Unreadable(File(<<n_b_bin>>, <<1, 1, 1, 1>>))}},
                   SubVariants,
                   {{}, {File(<<n_x_log>>, s_Hi)}},
                   {{}, {File(<<n_gitignore>>, s_star_log)}} >>)}

\* a config.json that ignores .log files, dot files and .git directories
LogConfig ==
    [PlainConfig EXCEPT !.ignore_extensions = << <<46, 108, 111, 103>> >>,
                        !.ignore_file_patterns = << <<46, 42>> >>]

\* DirectoryValidator.__init__ before an original and an extracted
\* directory; config is what a config.json next to validator.py would hold;
\* no packager and no extractor at work
InitW ==
    /\ tree \in OriginalTrees
    /\ dest \in ExtractedTrees
    /\ config \in {DefaultConfig, LogConfig}
    /\ user_config = <<>>
    /\ original_files = <<>>
    /\ extracted_files = <<>>
    /\ ValidatorFresh
    /\ PackagerFresh
    /\ ExtractorFresh

\* one call of validator.validate(), with or without a config.json next to
\* validator.py, on the validator as it stands
ValidateCall ==
    /\ \E cfgfile \in {<<>>, <<config>>} :
        \E r \in {validate(tree, dest,
                           [use_gitignore |-> use_gitignore,
                            gitignore_patterns |-> gitignore_patterns,
                            source_root |-> source_root,
                            config_patterns |-> config_patterns],
                           [stats |-> vstats, errors |-> errors,
                            warnings |-> warnings, files_match |-> files_match,
                            dirs_match |-> dirs_match],
                           cfgfile)} :
           /\ use_gitignore' = r.vi.use_gitignore
           /\ gitignore_patterns' = r.vi.gitignore_patterns
           /\ source_root' = r.vi.source_root
           /\ config_patterns' = r.vi.config_patterns
           /\ original_files' = r.original_files
           /\ extracted_files' = r.extracted_files
           /\ vstats' = r.v.stats
           /\ errors' = r.v.errors
           /\ warnings' = r.v.warnings
           /\ files_match' = r.v.files_match
           /\ dirs_match' = r.v.dirs_match
           /\ validation_passed' = r.passed
    /\ UNCHANGED <<tree, config, stats, ignoredLog, docs, clock, user_config>>
    /\ UNCHANGED extractVars

\* the first validate() of a validator
Validate ==
    /\ validation_passed = "none"
    /\ ValidateCall

NextW == Validate

SpecW == InitW /\ [][NextW]_vars

-----------------------------------------------------------------------------
(* ConfigManager.load_config, then a scan under the loaded configuration *)

\* the values json.load can put into the mapping: true/false, an integer,
\* a string, a list of strings
JBool(b) == [type |-> "bool", b |-> b, n |-> 0, s |-> <<>>, l |-> <<>>]

JInt(n) == [type |-> "int", b |-> FALSE, n |-> n, s |-> <<>>, l |-> <<>>]

JStr(s) == [type |-> "str", b |-> FALSE, n |-> 0, s |-> s, l |-> <<>>]

JList(l) == [type |-> "list", b |-> FALSE, n |-> 0, s |-> <<>>, l |-> l]

\* isinstance(value, bool)
isinstance_bool(value) == value.type = "bool"

\* isinstance(value, int): bool is a subclass of int
isinstance_int(value) == value.type \in {"int", "bool"}

\* isinstance(value, list)
isinstance_list(value) == value.type = "list"

\* the number a value of class int compares and computes as: True is 1,
\* False is 0
IntValue(value) ==
    IF value.type = "bool" THEN (IF value.b THEN 1 ELSE 0) ELSE value.n

\* one list option of _validate_and_merge_config's last loop
MergeList(user, key, default) ==
    IF key \in DOMAIN user /\ isinstance_list(user[key]) THEN user[key].l
    ELSE default

_validate_and_merge_config(user) ==
    [capture_contents |->
        IF "capture_contents" \in DOMAIN user
           /\ isinstance_bool(user["capture_contents"])
        THEN user["capture_contents"].b
        ELSE DefaultConfig.capture_contents,
     max_content_size |->
        IF "max_content_size" \in DOMAIN user
           /\ isinstance_int(user["max_content_size"])
           /\ IntValue(user["max_content_size"]) > 0
        THEN IntValue(user["max_content_size"])
        ELSE DefaultConfig.max_content_size,
     ignore_extensions |->
        MergeList(user, "ignore_extensions", DefaultConfig.ignore_extensions),
     ignore_file_patterns |->
        MergeList(user, "ignore_file_patterns",
                  DefaultConfig.ignore_file_patterns),
     ignore_folder_patterns |->
        MergeList(user, "ignore_folder_patterns",
                  DefaultConfig.ignore_folder_patterns),
     ignore_paths |-> MergeList(user, "ignore_paths", DefaultConfig.ignore_paths),
     capture_extensions |->
        MergeList(user, "capture_extensions", DefaultConfig.capture_extensions),
     no_capture_extensions |->
        MergeList(user, "no_capture_extensions",
                  DefaultConfig.no_capture_extensions)]

e_txt == <<46, 116, 120, 116>>   \* ".txt"
e_TXT == <<46, 84, 88, 84>>   \* ".TXT"
e_log == <<46, 108, 111, 103>>   \* ".log"
p_a_star == <<97, 42>>   \* "a*"
p_s_q_b == <<115, 63, 98>>   \* "s?b"
p_sub_M_txt == <<115, 117, 98, 47, 77, 46, 116, 120, 116>>   \* "sub/M.txt"
n_N_TXT == <<78, 46, 84, 88, 84>>   \* "N.TXT"
s_txt_rule == <<42, 46, 116, 120, 116, 10>>   \* "*.txt\n"
\* "*.log\n!a.txt\n!sub/\n"
s_log_rule_negated ==
    <<42, 46, 108, 111, 103, 10, 33, 97, 46, 116, 120, 116, 10,
      33, 115, 117, 98, 47, 10>>
\* "*.txt\n!a.txt\n"
s_txt_rule_negated ==
    <<42, 46, 116, 120, 116, 10, 33, 97, 46, 116, 120, 116, 10>>

\* the settings that keep every entry, so that one option at a time decides
KeepAll ==
    ("ignore_extensions" :> JList(<<>>)) @@
    ("ignore_file_patterns" :> JList(<<>>)) @@
    ("ignore_folder_patterns" :> JList(<<>>)) @@
    ("ignore_paths" :> JList(<<>>)) @@
    ("no_capture_extensions" :> JList(<<>>))

\* the mappings read from the configuration file
UserConfigs ==
    { KeepAll,
      "verbose" :> JBool(TRUE),
      "ignore_extensions" :> JStr(e_txt) }
    \cup {("capture_contents" :> v) @@ KeepAll :
            v \in {JBool(FALSE), JBool(TRUE), JInt(0), JStr(<<110, 111>>)}}
    \cup {("max_content_size" :> v) @@ KeepAll :
            v \in {JInt(5), JInt(4), JInt(2), JInt(0), JInt(-1), JBool(TRUE),
                   JBool(FALSE), JStr(<<53>>), JList(<<>>)}}
    \cup {("capture_extensions" :> v) @@ KeepAll :
            v \in {JList(<<e_txt>>), JList(<<e_TXT>>), JList(<<e_log>>),
                   JStr(e_txt)}}
    \cup {("no_capture_extensions" :> v) @@ KeepAll :
            v \in {JList(<<e_txt>>), JList(<<e_log, e_txt>>), JInt(1)}}
    \cup {("capture_extensions" :> JList(<<e_txt>>)) @@
          ("no_capture_extensions" :> JList(<<e_txt>>)) @@
          ("max_content_size" :> JInt(2)) @@ KeepAll}
    \cup {("ignore_extensions" :> v) @@ KeepAll :
            v \in {JList(<<e_TXT>>), JList(<<e_log>>), JList(<<n_sub>>)}}
    \cup {("ignore_file_patterns" :> v) @@ KeepAll :
            v \in {JList(<<p_a_star>>), JList(<<p_s_q_b>>), JBool(TRUE)}}
    \cup {("ignore_folder_patterns" :> v) @@ KeepAll :
            v \in {JList(<<p_s_q_b>>), JList(<<p_a_star>>)}}
    \cup {("ignore_paths" :> v) @@ KeepAll :
            v \in {JList(<<p_sub_M_txt>>), JList(<<n_a_txt>>),
                   JList(<<e_txt>>), JList(<<root_path>>)}}

\* the roots scanned under the loaded configuration: a.txt (5 bytes), N.TXT,
\* x.log, a directory sub that may hold a pattern file of its own, and what
\* may stand at <root>/.gitignore
ConfigTrees ==
    Combine(<< {{}, {File(<<n_a_txt>>, s_hello)}},
               {{}, {File(<<n_N_TXT>>, s_Hi)}},
               {{}, {File(<<n_x_log>>, s_Hi)}},
               {{},
                {Dir(<<n_sub>>), File(<<n_sub, n_M_txt>>, s_Hi)},
                {Dir(<<n_sub>>), File(<<n_sub, n_M_txt>>, s_Hi),
                 File(<<n_sub, n_gitignore>>, s_txt_rule)}},
               {{}, {File(<<n_gitignore>>, s_star_log)},
                {File(<<n_gitignore>>, s_log_rule_negated)},
                {File(<<n_gitignore>>, s_txt_rule_negated)}} >>)

InitC ==
    /\ tree \in ConfigTrees
    /\ config = DefaultConfig
    /\ user_config = <<>>
    /\ dest = {}
    /\ PackagerFresh
    /\ ExtractorFresh
    /\ ValidatorIdle

\* config_manager.load_config() on a configuration file holding the mapping
\* `user`, before the packager is made
LoadConfig ==
    /\ user_config = <<>>
    /\ docs = <<>>
    /\ \E user \in UserConfigs :
        /\ user_config' = <<user>>
        /\ config' = _validate_and_merge_config(user)
    /\ UNCHANGED <<tree, stats, gitignore_patterns, use_gitignore, source_root,
                   ignoredLog, docs, clock>>
    /\ UNCHANGED extractVars
    /\ UNCHANGED validateVars

NextC == LoadConfig \/ Scan

SpecC == InitC /\ [][NextC]_vars

-----------------------------------------------------------------------------
(* A scan and an extraction of files with known-binary names *)

\* the byte values the binary files are made of: 0, "H", "i" and 255
SampleBytes == {0, 72, 105, 255}

\* the longest of them
MaxBinaryLen == 3

\* every byte string up to that length
ByteStrings ==
    UNION {[1..n -> SampleBytes] : n \in 0..MaxBinaryLen}

\* a root holding p.png, alone or beside sub/b.bin
BinaryTrees ==
    {{File(<<n_p_png>>, b)} : b \in ByteStrings}
    \cup {{File(<<n_p_png>>, b), Dir(<<n_sub>>),
           File(<<n_sub, n_b_bin>>, Reverse(b) \o <<13, 10>>)} :
            b \in ByteStrings}
    \cup {{Unreadable(File(<<n_p_png>>, s_Hi))}}

InitB ==
    /\ tree \in BinaryTrees
    /\ config = PlainConfig
    /\ user_config = <<>>
    /\ dest = {}
    /\ PackagerFresh
    /\ ExtractorFresh
    /\ ValidatorIdle

NextB == Scan \/ Extract

SpecB == InitB /\ [][NextB]_vars

-----------------------------------------------------------------------------
(* The extraction of a document read from a JSON file *)

\* nodes as a package document may hold them
TextNode(name, encoding, data) ==
    [name |-> name, type |-> "file", size |-> Len(data), modified |-> 7,
     contents |-> [type |-> "text", encoding |-> encoding, data |-> data]]

BinaryNode(name, encoding, bytes) ==
    [name |-> name, type |-> "file", size |-> Len(bytes), modified |-> 7,
     contents |-> [type |-> "binary", encoding |-> encoding,
                   data |-> b64encode(bytes)]]

BlockNode(name, block_type) ==
    [name |-> name, type |-> "file", size |-> 0, modified |-> 7,
     contents |-> [type |-> block_type]]

BareNode(name) == [name |-> name, type |-> "file", size |-> 0]

DirNode(name, contents) ==
    [name |-> name, type |-> "directory", contents |-> contents]

RootNode(contents) ==
    [name |-> root_path, type |-> "directory", generated_at |-> 8,
     contents |-> contents]

s_euro == <<8364>>   \* "€", which Latin-1 cannot encode

\* the items an extraction may stumble over, and some it may not
FirstItems ==
    { TextNode(n_x_txt, "utf-8", s_Hi),
      BinaryNode(n_b_bin, "hex", <<0, 255>>),
      BinaryNode(n_a_txt, "base32", <<0, 255>>),
      BlockNode(n_b_bin, "json"),
      BlockNode(n_b_bin, "error"),
      TextNode(n_L_txt, "latin-1", s_euro),
      [type |-> "file"],
      [name |-> n_x_txt],
      [name |-> n_x_txt, type |-> "symlink"],
      DirNode(n_a_txt, <<>>),
      DirNode(n_sub, <<BinaryNode(n_b_bin, "hex", <<0, 255>>),
                       TextNode(n_x_txt, "utf-8", s_Hi)>>),
      BareNode(n_sub) }

\* the items that follow them
SecondItems ==
    { TextNode(n_a_txt, "utf-8", s_hello),
      BinaryNode(n_p_png, "base64", <<0, 255>>),
      BareNode(n_a_txt),
      DirNode(n_sub, <<TextNode(n_M_txt, "utf-8", s_Hi)>>),
      DirNode(n_sub, <<>>) }

\* the documents: a first and a second item at the top, or inside a
\* directory build
Documents ==
    {RootNode(<<a, b>>) : a \in FirstItems, b \in SecondItems}
    \cup {RootNode(<<DirNode(n_build, <<a, b>>)>>) :
            a \in FirstItems, b \in SecondItems}

\* what stands at the destination before the extraction: nothing, an empty
\* directory, or a directory that holds a.txt, or sub, already
Destinations ==
    { {},
      {Dir(<<>>)},
      {Dir(<<>>), File(<<n_a_txt>>, s_HELLO)},
      {Dir(<<>>), File(<<n_sub>>, s_Hi)},
      {Dir(<<>>), Dir(<<n_a_txt>>)} }

\* DirectoryExtractor.load_json(json_path) has returned the document
InitX ==
    /\ tree = {}
    /\ config = DefaultConfig
    /\ user_config = <<>>
    /\ stats = [directories |-> 0, files |-> 0, ignored |-> 0]
    /\ gitignore_patterns = <<>>
    /\ use_gitignore = FALSE
    /\ source_root = <<>>
    /\ ignoredLog = {}
    /\ docs \in {<<d>> : d \in Documents}
    /\ clock = 8000
    /\ dest \in Destinations
    /\ ExtractorFresh
    /\ ValidatorIdle

NextX == Extract

SpecX == InitX /\ [][NextX]_vars

-----------------------------------------------------------------------------
(* One validator used for several validate() calls *)

\* how much a validator has counted and logged so far
Carried ==
    Len(errors) + Len(warnings)
    + vstats.files_matched + vstats.files_size_mismatch
    + vstats.files_content_mismatch + vstats.files_missing
    + vstats.files_extra + vstats.dirs_matched + vstats.dirs_missing
    + vstats.dirs_extra + vstats.files_ignored_by_gitignore
    + vstats.dirs_ignored_by_gitignore

\* validate() is called again while the validator carries at most this much
MaxCarried == 4

\* the directories of the reused validator: those without x.log
ReusedOriginals ==
    {t \in OriginalTrees : \A e \in t : e.path # <<n_x_log>>}

ReusedExtracted ==
    {fs \in ExtractedTrees : \A e \in fs : e.path # <<n_x_log>>}

InitR ==
    /\ tree \in ReusedOriginals
    /\ dest \in ReusedExtracted
    /\ config = LogConfig
    /\ user_config = <<>>
    /\ original_files = <<>>
    /\ extracted_files = <<>>
    /\ ValidatorFresh
    /\ PackagerFresh
    /\ ExtractorFresh

\* a further validate() on the same validator and the same two directories
Revalidate ==
    /\ validation_passed # "none"
    /\ Carried <= MaxCarried
    /\ ValidateCall

NextR == Validate \/ Revalidate

SpecR == InitR /\ [][NextR]_vars

-----------------------------------------------------------------------------
(* Scan, extract and validate a directory with entries that cannot be read *)

n_z_txt == <<122, 46, 116, 120, 116>>   \* "z.txt"

\* a.txt, then b.bin (absent, readable or not), sub with M.txt (listable or
\* not), and z.txt or not
DeniedTrees ==
    Combine(<< {{File(<<n_a_txt>>, s_hello)}},
               {{}, {File(<<n_b_bin>>, <<0, 0, 0, 0>>)},
                {Unreadable(File(<<n_b_bin>>, <<0, 0, 0, 0>>))}},
               {{Dir(<<n_sub>>), File(<<n_sub, n_M_txt>>, s_Hi)},
                {Unreadable(Dir(<<n_sub>>)), File(<<n_sub, n_M_txt>>, s_Hi)}},
               {{}, {File(<<n_z_txt>>, s_Hi)}} >>)

InitP ==
    /\ tree \in DeniedTrees
    /\ dest = {}
    /\ config = PlainConfig
    /\ user_config = <<>>
    /\ original_files = <<>>
    /\ extracted_files = <<>>
    /\ ValidatorFresh
    /\ PackagerFresh
    /\ ExtractorFresh

\* validate() of the source directory against the extraction
ValidateExtraction ==
    /\ extracted
    /\ Validate

NextP == Scan \/ Extract \/ ValidateExtraction

SpecP == InitP /\ [][NextP]_vars

-----------------------------------------------------------------------------
(* Extraction of documents whose node names are paths *)

n_up_a_txt == <<46, 46, 47, 97, 46, 116, 120, 116>>   \* "../a.txt"

n_abs_a_txt == <<47, 97, 46, 116, 120, 116>>   \* "/a.txt"

n_up_up_a_txt == <<46, 46, 47, 46, 46, 47, 97, 46, 116, 120, 116>>   \* "../../a.txt"

PathItems ==
    {TextNode(name, "utf-8", s_hello) :
        name \in {n_a_txt, n_up_a_txt, n_abs_a_txt}}
    \cup {DirNode(name, <<TextNode(child, "utf-8", s_hello)>>) :
            name \in {n_sub, n_up},
            child \in {n_a_txt, n_up_a_txt, n_up_up_a_txt}}

PathDocuments ==
    {RootNode(<<a>>) : a \in PathItems}
    \cup {RootNode(<<a, b>>) : a \in PathItems, b \in PathItems}

\* the disk before the extraction: the directory that holds the destination,
\* the two above it and the root of the file system, what they may hold, and
\* the destination, empty if it is there
Disks ==
    {{Dir(<<n_up>>), Dir(<<n_up, n_up>>), Dir(<<n_up, n_up, n_up>>),
      Dir(<<n_root>>)} \cup outside \cup inside :
        outside \in {{}, {File(<<n_up, n_a_txt>>, s_HELLO)}},
        inside \in {{}, {Dir(<<>>)}}}

InitT ==
    /\ tree = {}
    /\ config = DefaultConfig
    /\ user_config = <<>>
    /\ stats = [directories |-> 0, files |-> 0, ignored |-> 0]
    /\ gitignore_patterns = <<>>
    /\ use_gitignore = FALSE
    /\ source_root = <<>>
    /\ ignoredLog = {}
    /\ docs \in {<<d>> : d \in PathDocuments}
    /\ clock = 9000
    /\ dest \in Disks
    /\ ExtractorFresh
    /\ ValidatorIdle

NextT == Extract

SpecT == InitT /\ [][NextT]_vars

-----------------------------------------------------------------------------
(* Files of every extension either list of binary extensions names *)

\* the extensions of the scanner's list and of the validator's list
ListedExtensions ==
    {packager_binary_extensions[i] : i \in 1..Len(packager_binary_extensions)}
    \cup {validator_binary_extensions[i] :
            i \in 1..Len(validator_binary_extensions)}

\* "a" and an extension, and the extension alone as the name of a dot file
ListedNames ==
    {stem \o ext : stem \in {<<Ch.lowerA>>, <<>>}, ext \in ListedExtensions}

InitK ==
    /\ tree \in {{File(<<name>>, s_Hi)} : name \in ListedNames}
    /\ dest = {}
    /\ config = PlainConfig
    /\ user_config = <<>>
    /\ original_files = <<>>
    /\ extracted_files = <<>>
    /\ ValidatorFresh
    /\ PackagerFresh
    /\ ExtractorFresh

NextK == Scan \/ Extract \/ ValidateExtraction

SpecK == InitK /\ [][NextK]_vars

-----------------------------------------------------------------------------
(* What the claims speak of *)

Scanned == docs # <<>>

LastDoc == docs[Len(docs)]

\* the packager as the last scan left it
Packager ==
    [config |-> config, use_gitignore |-> use_gitignore,
     gitignore_patterns |-> gitignore_patterns, source_root |-> source_root]

\* the nodes of a contents list, each with its path from the root
RECURSIVE Nodes(_, _)
Nodes(contents, prefix) ==
    UNION {{[path |-> Append(prefix, contents[i].name), node |-> contents[i]]}
           \cup (IF contents[i].type = "directory"
                 THEN Nodes(contents[i].contents, Append(prefix, contents[i].name))
                 ELSE {}) : i \in 1..Len(contents)}

DocNodes(doc) == Nodes(doc.contents, <<>>)

DocPaths(doc) == {n.path : n \in DocNodes(doc)}

DocFilePaths(doc) == {n.path : n \in {m \in DocNodes(doc) : m.node.type = "file"}}

DocDirPaths(doc) ==
    {n.path : n \in {m \in DocNodes(doc) : m.node.type = "directory"}}

EntryAt(t, path) == CHOOSE e \in t : e.path = path

IsPrefix(p, q) == Len(p) <= Len(q) /\ SubSeq(q, 1, Len(p)) = p

\* the entries above e
Ancestors(t, e) == {a \in t : Len(a.path) < Len(e.path) /\ IsPrefix(a.path, e.path)}

\* a document without the time it was generated at
WithoutGeneratedAt(doc) == [doc EXCEPT !.generated_at = 0]

\* C1 (as claimed): when the scan kept every entry of the tree and captured
\* every file as a text block, extracting the document into an empty
\* destination gives the same file paths, the same directories and, for every
\* file, the same bytes.
C1_RoundTrip ==
    (/\ extracted
     /\ DocPaths(LastDoc) = {e.path : e \in tree}
     /\ \A n \in DocNodes(LastDoc) :
            n.node.type = "file" =>
                /\ "contents" \in DOMAIN n.node
                /\ n.node.contents.type = "text")
    => /\ {d.path : d \in {f \in dest : is_file(f)}}
            = {e.path : e \in {f \in tree : is_file(f)}}
       /\ {d.path : d \in {f \in dest : is_dir(f)}} \ {<<>>}
            = {e.path : e \in {f \in tree : is_dir(f)}}
       /\ \A e \in tree :
            is_file(e) => \E d \in dest : d.path = e.path /\ d.bytes = e.bytes

\* C2 (as claimed): two scans of the same tree under the same configuration
\* return documents that are equal but for generated_at, whatever the order
\* the filesystem enumerated the directories in.
C2_Deterministic ==
    \A i, j \in 1..Len(docs) :
        WithoutGeneratedAt(docs[i]) = WithoutGeneratedAt(docs[j])

\* directories before files, each group in ascending order of the lowercased
\* names, in this contents list and in every one below it
RECURSIVE Ordered(_)
Ordered(contents) ==
    /\ \A i, j \in 1..Len(contents) :
        i < j =>
            /\ contents[i].type = "file" => contents[j].type = "file"
            /\ contents[i].type = contents[j].type =>
                ~StrLess(Lower(contents[j].name), Lower(contents[i].name))
    /\ \A i \in 1..Len(contents) :
        contents[i].type = "directory" => Ordered(contents[i].contents)

\* C3: in every directory node of every scanned document, at every depth,
\* the directory children come before the file children, and the children of
\* each of the two groups are in ascending order of their lowercased names.
C3_ChildOrder == \A k \in 1..Len(docs) : Ordered(docs[k].contents)

\* C3's case: a document in which the sort moved a directory before a file
\* of a smaller name and, one level down, an upper-case name behind a
\* lower-case one
C3_Witness ==
    /\ Scanned
    /\ \E i, j \in 1..Len(LastDoc.contents) :
        /\ i < j
        /\ LastDoc.contents[i].type = "directory"
        /\ LastDoc.contents[j].type = "file"
        /\ StrLess(LastDoc.contents[j].name, LastDoc.contents[i].name)
        /\ \E k, l \in 1..Len(LastDoc.contents[i].contents) :
            /\ k < l
            /\ StrLess(LastDoc.contents[i].contents[l].name,
                       LastDoc.contents[i].contents[k].name)


\* the entries the walk reached: those with no ignored entry above them
Reached == {e \in tree : \A a \in Ancestors(tree, e) : a.path \notin ignoredLog}

\* pattern is one of the loaded patterns, ends with "/" and is no negation
IsDirPattern(pattern) ==
    EndsWith(pattern, <<Ch.slash>>) /\ ~StartsWith(pattern, <<Ch.bang>>)

\* pattern is a loaded pattern for files and directories alike
IsPlainPattern(pattern) ==
    ~EndsWith(pattern, <<Ch.slash>>) /\ ~StartsWith(pattern, <<Ch.bang>>)

\* C4: in pattern-file mode, a pattern ending with "/" keeps out of the
\* document every directory whose name or root-relative path glob-matches the
\* pattern without its "/", together with everything below it, and is never
\* the reason a non-directory entry is ignored (an ignored non-directory has
\* an essential name or matches a pattern without the trailing "/"); with the
\* one pattern "build/", a top-level directory build is absent with all its
\* contents and a sibling file buildkit.txt is kept.  (Patterns starting with
\* "!" are inert and are not meant by the claim.)
C4_DirectoryPattern ==
    (Scanned /\ use_gitignore) =>
        /\ \A i \in 1..Len(gitignore_patterns) :
            LET pattern == gitignore_patterns[i]
                stem == SubSeq(pattern, 1, Len(pattern) - 1)
            IN IsDirPattern(pattern) =>
                \A e \in tree :
                    (/\ is_dir(e)
                     /\ \/ fnmatch(Name(e), stem)
                        \/ fnmatch(JoinPath(e.path), stem))
                    => \A q \in DocPaths(LastDoc) : ~IsPrefix(e.path, q)
        /\ \A e \in tree :
            (~is_dir(e) /\ e.path \in ignoredLog) =>
                \/ Name(e) \in {n_git, n_pycache}
                \/ \E i \in 1..Len(gitignore_patterns) :
                    /\ IsPlainPattern(gitignore_patterns[i])
                    /\ \/ fnmatch(Name(e), gitignore_patterns[i])
                       \/ fnmatch(JoinPath(e.path), gitignore_patterns[i])
        /\ gitignore_patterns = <<n_build \o <<Ch.slash>>>> =>
            /\ \A q \in DocPaths(LastDoc) : ~IsPrefix(<<n_build>>, q)
            /\ (\E e \in tree : e.path = <<n_buildkit_txt>>)
                    => <<n_buildkit_txt>> \in DocPaths(LastDoc)

\* C4's case: the pattern file holds "build/", the root holds a directory
\* build with files in it and a file buildkit.txt, and the scan kept the
\* file and dropped the directory
C4_Witness ==
    /\ Scanned
    /\ use_gitignore
    /\ gitignore_patterns = <<n_build \o <<Ch.slash>>>>
    /\ \E e \in tree : e.path = <<n_build>> /\ is_dir(e)
    /\ \E e \in tree : e.path = <<n_build, n_x_txt>>
    /\ <<n_buildkit_txt>> \in DocPaths(LastDoc)
    /\ <<n_build>> \in ignoredLog
    /\ <<n_build>> \notin DocPaths(LastDoc)

\* the entries should_ignore answers True for, among those the walk reaches
IgnoredReached ==
    {e \in tree :
        /\ should_ignore(Packager, e)
        /\ \A a \in Ancestors(tree, e) : ~should_ignore(Packager, a)}

\* C5: no node of the document stands for an entry should_ignore answers True
\* for, nor for anything below such an entry, and the ignored counter is the
\* number of ignored entries the walk reached: one for each, none for what
\* lies below an ignored directory.
C5_IgnoreBeforeVisit ==
    Scanned =>
        /\ \A q \in DocPaths(LastDoc) :
            \A e \in tree : should_ignore(Packager, e) => ~IsPrefix(e.path, q)
        /\ stats.ignored = Cardinality(IgnoredReached)
        /\ ignoredLog = {e.path : e \in IgnoredReached}

\* C5's case: an ignored directory holding an entry that would be ignored by
\* itself, counted once
C5_Witness ==
    /\ Scanned
    /\ \E d \in IgnoredReached :
        /\ is_dir(d)
        /\ \E e \in tree :
            /\ d \in Ancestors(tree, e)
            /\ should_ignore(Packager, e)
            /\ e.path \notin ignoredLog
    /\ stats.ignored = Cardinality(IgnoredReached)

\* C6: in pattern-file mode a reached entry is ignored if and only if it
\* matches a loaded pattern or bears one of the two essential names; the
\* configuration's ignore lists decide nothing, whatever the configuration.
C6_ModesNotMerged ==
    (Scanned /\ use_gitignore) =>
        \A e \in Reached :
            e.path \in ignoredLog <=>
                \/ \E i \in 1..Len(gitignore_patterns) :
                        MatchesPattern(gitignore_patterns[i], e)
                \/ Name(e) \in {n_git, n_pycache}

\* C6's case: pattern-file mode under the default configuration, and the
\* document holds an entry the configuration's ignore lists would have
\* dropped
C6_Witness ==
    /\ Scanned
    /\ use_gitignore
    /\ config = DefaultConfig
    /\ \E e \in tree :
        /\ Name(e) # n_gitignore
        /\ ConfigIgnore(Packager, e)
        /\ e.path \in DocPaths(LastDoc)

\* something stands at <root>/.gitignore
GitignoreExists == \E e \in tree : e.path = <<n_gitignore>>

\* C7 (as claimed): a scan is in pattern-file mode if and only if .gitignore
\* exists at the root being scanned.
C7_ModeIffExists == Scanned => (use_gitignore <=> GitignoreExists)

\* C7 (amended): a scan is in pattern-file mode if and only if .gitignore at
\* the root is a regular file that can be opened and decoded as UTF-8; it is
\* in configuration mode otherwise.
C7_ModeIffLoaded ==
    Scanned =>
        (use_gitignore <=>
            \E e \in tree :
                /\ e.path = <<n_gitignore>>
                /\ is_file(e)
                /\ e.readable
                /\ Utf8Decode(e.bytes).ok)

\* C7's case: .gitignore exists at the root and the scan ran in
\* configuration mode
C7_Witness == Scanned /\ GitignoreExists /\ ~use_gitignore


\* the file nodes of the last document whose contents were captured and whose
\* bytes on disk are no UTF-8 (any bytes are Latin-1), each with its entry
CapturedNonUtf8 ==
    {n \in DocNodes(LastDoc) :
        /\ n.node.type = "file"
        /\ "contents" \in DOMAIN n.node
        /\ ~Utf8Decode(EntryAt(tree, n.path).bytes).ok}

IsLatin1Text(block) == block.type = "text" /\ block.encoding = "latin-1"

\* C8 (as claimed): every file whose capture is authorized and whose bytes
\* are invalid UTF-8 but valid Latin-1 is captured as a text block tagged
\* latin-1.
C8_Latin1Fallback ==
    Scanned => \A n \in CapturedNonUtf8 : IsLatin1Text(n.node.contents)

\* C8 (amended): every such file that can be read and whose extension is not
\* on the packager's known-binary list is captured as a text block tagged
\* latin-1, its data the Latin-1 decoding of its bytes; one with a
\* known-binary extension is captured as a base64 binary block.
C8_Latin1FallbackOffBinaryList ==
    Scanned =>
        \A n \in CapturedNonUtf8 :
            LET e == EntryAt(tree, n.path)
                known_binary ==
                    \E i \in 1..Len(packager_binary_extensions) :
                        Lower(Suffix(Name(e))) = packager_binary_extensions[i]
            IN e.readable =>
                IF known_binary
                THEN n.node.contents.type = "binary"
                     /\ n.node.contents.encoding = "base64"
                ELSE IsLatin1Text(n.node.contents)
                     /\ n.node.contents.data
                            = UniversalNewlines(Latin1Decode(e.bytes).text)

\* C8's case: the document holds L.txt, whose only byte is 0xE9, as a text
\* block tagged latin-1 with the one character U+00E9
C8_Witness ==
    /\ Scanned
    /\ \E n \in CapturedNonUtf8 :
        /\ n.path = <<n_L_txt>>
        /\ IsLatin1Text(n.node.contents)
        /\ n.node.contents.data = <<233>>

\* the scenario: the root of a.txt, sub/b.bin and .git, scanned under the
\* built-in default configuration
ScenarioScanned == Scanned /\ tree = ScenarioTree /\ config = DefaultConfig

\* the top-level children are sub and a.txt, in this order, and a.txt has a
\* text block with data "hello"
ScenarioTop ==
    /\ Len(LastDoc.contents) = 2
    /\ LastDoc.contents[1].name = n_sub
    /\ LastDoc.contents[1].type = "directory"
    /\ LastDoc.contents[2].name = n_a_txt
    /\ LastDoc.contents[2].type = "file"
    /\ "contents" \in DOMAIN LastDoc.contents[2]
    /\ LastDoc.contents[2].contents.type = "text"
    /\ LastDoc.contents[2].contents.data = s_hello

\* C10 (as claimed): the scenario's document has the two top-level children
\* sub and a.txt in this order, a text block "hello" for a.txt, a base64
\* binary block for b.bin, and the scan counted 1 ignored entry.
C10_Scenario ==
    ScenarioScanned =>
        /\ ScenarioTop
        /\ \E n \in DocNodes(LastDoc) :
            /\ n.path = <<n_sub, n_b_bin>>
            /\ "contents" \in DOMAIN n.node
            /\ n.node.contents.type = "binary"
            /\ n.node.contents.encoding = "base64"
        /\ stats.ignored = 1

\* C10 (amended): the scenario's document has the two top-level children sub
\* and a.txt in this order and a text block "hello" for a.txt; b.bin is
\* ignored by the default ignore_extensions, so sub has no children, the
\* document has no node for b.bin, and the scan counted 2 ignored entries
\* (.git and sub/b.bin), 1 directory and 1 file.
C10_ScenarioDefaultConfig ==
    ScenarioScanned =>
        /\ ScenarioTop
        /\ LastDoc.contents[2].contents.encoding = "utf-8"
        /\ LastDoc.contents[1].contents = <<>>
        /\ DocPaths(LastDoc) = {<<n_sub>>, <<n_a_txt>>}
        /\ ignoredLog = {<<n_git>>, <<n_sub, n_b_bin>>}
        /\ stats = [directories |-> 1, files |-> 1, ignored |-> 2]

\* C10's case: the scenario scanned, b.bin on disk with its 10,000 zero bytes
C10_Witness ==
    /\ ScenarioScanned
    /\ \E e \in tree : e.path = <<n_sub, n_b_bin>> /\ Len(e.bytes) = 10000
    /\ stats.ignored = 2


\* compare_files has run
Compared == files_match # "none"

\* an error of this kind names this path
HasError(kind, file_path) ==
    \E k \in 1..Len(errors) : errors[k] = [kind |-> kind, path |-> file_path]

\* C9: for every file in both trees, a size-mismatch error is recorded if and
\* only if the sizes differ by more than the tolerance, which is 0 for a path
\* off the known-binary list and the larger of 500 bytes and 1% of the
\* original size for a path on it (a difference d exceeds 1% of a size s
\* exactly when 100 d > s); the size-mismatch counter counts these files and
\* any of them makes compare_files return False.  A binary file of original
\* size 50,000 that differs by 10 bytes gets no error, and is counted as
\* matched when both files can be hashed; one that differs by 600 bytes gets
\* a size-mismatch error.
C9_SizeTolerance ==
    Compared =>
        LET both == DOMAIN original_files \cap DOMAIN extracted_files
            diff(p) == IF original_files[p].size >= extracted_files[p].size
                       THEN original_files[p].size - extracted_files[p].size
                       ELSE extracted_files[p].size - original_files[p].size
            known_binary(p) ==
                \E i \in 1..Len(validator_binary_extensions) :
                    EndsWith(Lower(p), validator_binary_extensions[i])
            exceeds(p) ==
                IF known_binary(p)
                THEN diff(p) > 500 /\ 100 * diff(p) > original_files[p].size
                ELSE diff(p) > 0
        IN /\ \A p \in both : HasError("size_mismatch", p) <=> exceeds(p)
           /\ vstats.files_size_mismatch
                = Cardinality({p \in both : exceeds(p)})
           /\ (\E p \in both : exceeds(p)) => files_match = "False"
           /\ \A p \in both :
                (known_binary(p) /\ original_files[p].size = 50000) =>
                    /\ diff(p) = 10 =>
                        /\ \A k \in 1..Len(errors) : errors[k].path # p
                        /\ (both = {p} /\ extracted_files[p].readable
                            /\ DOMAIN original_files = DOMAIN extracted_files)
                                => /\ files_match = "True"
                                   /\ vstats.files_matched = 1
                    /\ diff(p) = 600 =>
                        /\ HasError("size_mismatch", p)
                        /\ files_match = "False"

\* C9's case: b.bin of 50,000 bytes extracted with 10 bytes more and another
\* content, compared without an error and counted as matched, next to an
\* a.txt that is the same in both trees
C9_Witness ==
    /\ Compared
    /\ n_b_bin \in DOMAIN original_files \cap DOMAIN extracted_files
    /\ original_files[n_b_bin].size = 50000
    /\ extracted_files[n_b_bin].size = 50010
    /\ extracted_files[n_b_bin].content # original_files[n_b_bin].content
    /\ extracted_files[n_b_bin].readable
    /\ errors = <<>>
    /\ vstats.files_matched = 2
    /\ files_match = "True"


\* validate has returned
Validated == validation_passed # "none"

\* the entries of the original directory the validator's filter keeps: those
\* it ignores neither themselves nor through a directory above them
ValidatorState ==
    [use_gitignore |-> use_gitignore, gitignore_patterns |-> gitignore_patterns,
     source_root |-> source_root, config_patterns |-> config_patterns]

KeptOriginal ==
    {e \in tree :
        /\ ~validator_should_ignore(ValidatorState, e)
        /\ \A a \in Ancestors(tree, e) :
                ~validator_should_ignore(ValidatorState, a)}

\* the extracted directory has an entry of this path and kind
InExtracted(e) == \E d \in dest : d.path = e.path /\ d.kind = e.kind

ExtractedAt(e) == CHOOSE d \in dest : d.path = e.path /\ d.kind = e.kind

KnownBinaryName(name) ==
    \E i \in 1..Len(validator_binary_extensions) :
        EndsWith(Lower(name), validator_binary_extensions[i])

HasWarning(kind, path_str) ==
    \E k \in 1..Len(warnings) : warnings[k] = [kind |-> kind, path |-> path_str]

FileNodes ==
    UNION {{n \in DocNodes(docs[k]) : n.node.type = "file"} : k \in 1..Len(docs)}

MetadataKeys == {"name", "type", "size", "modified", "extension"}

\* C12: a file node of a scanned document carries a content block if and only
\* if capture is enabled, the file's size is at most max_content_size, its
\* extension is in capture_extensions when that list is not empty, and its
\* extension is not in no_capture_extensions; a node without a content block
\* carries the metadata only, and in both cases size is the size on disk.
C12_CaptureDecision ==
    \A n \in FileNodes :
        LET e == EntryAt(tree, n.path)
        IN /\ n.node.size = Len(e.bytes)
           /\ "contents" \in DOMAIN n.node <=>
                /\ config.capture_contents
                /\ Len(e.bytes) <= config.max_content_size
                /\ config.capture_extensions # <<>> =>
                        InList(n.node.extension, config.capture_extensions)
                /\ ~InList(n.node.extension, config.no_capture_extensions)
           /\ "contents" \notin DOMAIN n.node => DOMAIN n.node = MetadataKeys

\* C12's case: under a cap of 2 bytes a file of exactly 2 bytes is captured
\* and a larger one beside it is not
C12_Witness ==
    /\ Scanned
    /\ config.max_content_size = 2
    /\ \E n \in FileNodes : n.node.size = 2 /\ "contents" \in DOMAIN n.node
    /\ \E n \in FileNodes : n.node.size > 2 /\ "contents" \notin DOMAIN n.node


\* the file nodes of the last document that carry a binary block
BinaryNodes ==
    {n \in DocNodes(LastDoc) :
        /\ n.node.type = "file"
        /\ "contents" \in DOMAIN n.node
        /\ n.node.contents.type = "binary"}

\* C13: base64-decoding the data of a binary block of a scanned document
\* gives the bytes of the file it was captured from, and the file extracted
\* from it holds those bytes.
C13_BinaryRoundTrip ==
    Scanned =>
        \A n \in BinaryNodes :
            LET e == EntryAt(tree, n.path)
                dec == b64decode(n.node.contents.data)
            IN /\ n.node.contents.encoding = "base64"
               /\ dec.ok
               /\ dec.bytes = e.bytes
               /\ extracted =>
                    \E d \in dest : d.path = n.path /\ is_file(d) /\ d.bytes = e.bytes

\* C13's case: an extracted document with binary blocks whose data end in
\* "==", in "=" and in no padding, one of them holding CR LF and the byte 255
C13_Witness ==
    /\ extracted
    /\ \E n, o \in BinaryNodes :
        LET a == EntryAt(tree, n.path).bytes
            b == EntryAt(tree, o.path).bytes
        IN /\ Len(a) = 3
           /\ Len(b) = 5
           /\ \E i \in 1..3 : a[i] = 255
           /\ n.node.contents.data[4] # Ch.eq
           /\ o.node.contents.data[8] = Ch.eq


Loaded == user_config # <<>>

\* the mapping the configuration was loaded from
User == user_config[1]

ListKeys ==
    {"ignore_extensions", "ignore_file_patterns", "ignore_folder_patterns",
     "ignore_paths", "capture_extensions", "no_capture_extensions"}

\* the field of a configuration record under its JSON key
Field(c, key) ==
    CASE key = "ignore_extensions" -> c.ignore_extensions
      [] key = "ignore_file_patterns" -> c.ignore_file_patterns
      [] key = "ignore_folder_patterns" -> c.ignore_folder_patterns
      [] key = "ignore_paths" -> c.ignore_paths
      [] key = "capture_extensions" -> c.capture_extensions
      [] key = "no_capture_extensions" -> c.no_capture_extensions

\* C14 (as claimed): after a mapping is loaded, capture_contents is the
\* supplied value when that is a JSON boolean, max_content_size the supplied
\* value when that is a JSON integer above zero, each list field the supplied
\* value when that is a JSON list, and every field not so supplied has its
\* built-in default.
C14_ConfigMerge ==
    Loaded =>
        /\ config.capture_contents =
            IF "capture_contents" \in DOMAIN User
               /\ User["capture_contents"].type = "bool"
            THEN User["capture_contents"].b
            ELSE DefaultConfig.capture_contents
        /\ config.max_content_size =
            IF "max_content_size" \in DOMAIN User
               /\ User["max_content_size"].type = "int"
               /\ User["max_content_size"].n > 0
            THEN User["max_content_size"].n
            ELSE DefaultConfig.max_content_size
        /\ \A key \in ListKeys :
            Field(config, key) =
                IF key \in DOMAIN User /\ User[key].type = "list"
                THEN User[key].l
                ELSE Field(DefaultConfig, key)


\* every item of a contents list and of the lists below it: where it stands
\* (the indices from the root), the directory it is extracted into, itself
RECURSIVE Items(_, _, _)
Items(contents, at, dir_path) ==
    UNION {{[at |-> Append(at, i), dir |-> dir_path, item |-> contents[i]]}
           \cup (IF /\ "name" \in DOMAIN contents[i]
                    /\ "type" \in DOMAIN contents[i]
                    /\ contents[i].type = "directory"
                    /\ "contents" \in DOMAIN contents[i]
                 THEN Items(contents[i].contents, Append(at, i),
                            Append(dir_path, contents[i].name))
                 ELSE {}) : i \in 1..Len(contents)}

\* the items of the document being extracted
XItems == Items(LastDoc.contents, <<>>, <<>>)

\* an item without a name or a type
Malformed(it) == "name" \notin DOMAIN it.item \/ "type" \notin DOMAIN it.item

\* the file and directory nodes among the items
XNodes == {it \in XItems : ~Malformed(it) /\ it.item.type \in {"file", "directory"}}

Target(it) == Append(it.dir, it.item.name)

\* a node the extractor can materialize: a directory, a file without a block,
\* with an error block, with a text block its encoding can encode, or with a
\* base64 binary block
WellFormed(it) ==
    \/ it.item.type = "directory"
    \/ "contents" \notin DOMAIN it.item
    \/ it.item.contents.type = "error"
    \/ /\ it.item.contents.type = "text"
       /\ Encode(it.item.contents.encoding, it.item.contents.data).ok
    \/ /\ it.item.contents.type = "binary"
       /\ it.item.contents.encoding = "base64"
       /\ b64decode(it.item.contents.data).ok

\* the node stands in fs as the document describes it
Materialized(it, fs) ==
    IF it.item.type = "directory" THEN IsDirAt(fs, Target(it))
    ELSE /\ WellFormed(it)
         /\ \E d \in fs :
            /\ d.path = Target(it)
            /\ is_file(d)
            /\ ("contents" \in DOMAIN it.item /\ it.item.contents.type = "text")
                => d.bytes = Encode(it.item.contents.encoding,
                                    WriteNewlines(it.item.contents.data)).bytes
            /\ ("contents" \in DOMAIN it.item /\ it.item.contents.type = "binary")
                => d.bytes = b64decode(it.item.contents.data).bytes

\* nothing stood at the node's target path before the extraction, no other
\* node of the document has the same target, and the nodes above it are
\* directories on free paths
Free(it, fs) ==
    /\ \A p \in Prefixes(Target(it)) \ {<<>>} : ~Exists(fs, p)
    /\ \A o \in XNodes :
        /\ (Target(o) = Target(it)) => o = it
        /\ (Target(o) # Target(it) /\ IsPrefix(Target(o), Target(it)))
            => o.item.type = "directory"

\* C15 (as claimed): when an extraction ends with errors = 0, every file and
\* directory node of the document stands at the destination as the document
\* describes it.
C15_NoErrorsAllMaterialized ==
    (extracted /\ xstats.errors = 0) =>
        \A it \in XNodes : Materialized(it, dest)

\* C15 (amended): whatever fails elsewhere, every well-formed node on a free
\* target path is materialized; every item without a name or a type and every
\* ill-formed file node on a free path is counted as an error; and errors = 0
\* implies that something stands at the target path of every file and
\* directory node, materialized from the document unless the path was taken
\* before the node was processed.
C15_PartialFailure ==
    [][extracted' =>
        /\ \A it \in XNodes :
            (WellFormed(it) /\ Free(it, dest)) => Materialized(it, dest')
        /\ xstats'.errors >=
            Cardinality({it \in XItems : Malformed(it)})
            + Cardinality({it \in XNodes : Free(it, dest) /\ ~WellFormed(it)})
        /\ xstats'.errors = 0 =>
            \A it \in XNodes :
                /\ Exists(dest', Target(it))
                /\ Free(it, dest) => Materialized(it, dest')]_vars

\* C15's case: the first item of a directory failed and was counted, and the
\* well-formed item after it was created
C15_Witness ==
    /\ extracted
    /\ xstats.errors = 1
    /\ \E a, b \in XNodes :
        /\ a.dir = b.dir
        /\ a.at[Len(a.at)] < b.at[Len(b.at)]
        /\ ~WellFormed(a)
        /\ ~Exists(dest, Target(a))
        /\ b.item.type = "file"
        /\ Materialized(b, dest)


\* the root's own entries: what a probe for a pattern file at the scan root
\* can see
RootEntries == {e \in tree : Len(e.path) = 1}

\* the pattern files below the root
NestedPatternFiles ==
    {e \in tree : Len(e.path) > 1 /\ Name(e) = n_gitignore /\ is_file(e)}

\* C16: after a scan the mode and the pattern list are the ones the pattern
\* file at the scan root alone gives (whatever pattern files lie below it),
\* and every entry the walk reached, at every depth, was ignored or kept as
\* that mode and that list decide.
C16_RootOnly ==
    Scanned =>
        LET root == load_gitignore(RootEntries, <<>>)
            at_root == [config |-> config, use_gitignore |-> root.use_gitignore,
                        gitignore_patterns |-> root.gitignore_patterns,
                        source_root |-> root_path]
        IN /\ use_gitignore = root.use_gitignore
           /\ gitignore_patterns = root.gitignore_patterns
           /\ \A e \in Reached :
                e.path \in ignoredLog <=> should_ignore(at_root, e)
           /\ \A f \in NestedPatternFiles :
                \A e \in Reached :
                    (Parent(e.path) = Parent(f.path) /\ Name(e) = n_M_txt)
                        => (e.path \in DocPaths(LastDoc)
                                <=> ~should_ignore(at_root, e))

\* C16's case: sub/.gitignore holds "*.txt", the scan is in pattern-file mode
\* from a root file that names no .txt, and sub/M.txt is in the document
C16_Witness ==
    /\ Scanned
    /\ use_gitignore
    /\ \E f \in NestedPatternFiles :
        /\ f.bytes = s_txt_rule
        /\ Append(Parent(f.path), n_M_txt) \in DocPaths(LastDoc)


\* a pattern list without the lines that begin with "!"
RECURSIVE WithoutNegations(_)
WithoutNegations(patterns) ==
    IF patterns = <<>> THEN <<>>
    ELSE IF StartsWith(Head(patterns), <<Ch.bang>>)
         THEN WithoutNegations(Tail(patterns))
    ELSE <<Head(patterns)>> \o WithoutNegations(Tail(patterns))

\* the packager of the last scan, had the pattern file held no "!" line
PackagerWithoutNegations ==
    [Packager EXCEPT !.gitignore_patterns = WithoutNegations(@)]

Negations ==
    {gitignore_patterns[i] : i \in
        {k \in 1..Len(gitignore_patterns) :
            StartsWith(gitignore_patterns[k], <<Ch.bang>>)}}

\* C17: in pattern-file mode the ignore decision for every entry of the tree
\* is the one the pattern list without its "!" lines gives, and the scan
\* ignored exactly the reached entries that list ignores.
C17_NegationInert ==
    (Scanned /\ use_gitignore) =>
        /\ \A e \in tree :
            should_ignore(Packager, e)
                <=> should_ignore(PackagerWithoutNegations, e)
        /\ \A e \in Reached :
            e.path \in ignoredLog <=> should_ignore(PackagerWithoutNegations, e)

\* C17's case: the loaded list holds "*.txt" and then "!a.txt", and a.txt is
\* ignored all the same
C17_Witness ==
    /\ Scanned
    /\ use_gitignore
    /\ <<33>> \o n_a_txt \in Negations
    /\ \E e \in tree : e.path = <<n_a_txt>> /\ e.path \in ignoredLog

\* some element of a list satisfies Test
SomeOf(list, Test(_)) == \E i \in 1..Len(list) : Test(list[i])

\* C18: in configuration mode an entry the walk reached is ignored if and
\* only if it is a file whose name ends, case-insensitively, with an ignored
\* extension, or its base name matches an ignored file pattern, or it is a
\* directory whose base name matches an ignored folder pattern, or its base
\* name equals, or its full path string ends with, an ignored path.
C18_ConfigFilters ==
    (Scanned /\ ~use_gitignore) =>
        \A e \in Reached :
            e.path \in ignoredLog <=>
                \/ /\ is_file(e)
                   /\ SomeOf(config.ignore_extensions,
                             LAMBDA ext : EndsWith(Lower(Name(e)), Lower(ext)))
                \/ SomeOf(config.ignore_file_patterns,
                          LAMBDA pattern : fnmatch(Name(e), pattern))
                \/ /\ is_dir(e)
                   /\ SomeOf(config.ignore_folder_patterns,
                             LAMBDA pattern : fnmatch(Name(e), pattern))
                \/ SomeOf(config.ignore_paths,
                          LAMBDA ignored_path :
                            \/ Name(e) = ignored_path
                            \/ EndsWith(PathStr(e), ignored_path))

\* C18's case: configuration mode with ".TXT" as the only filter; a.txt and
\* N.TXT are both ignored and the directory sub is kept
C18_Witness ==
    /\ Scanned
    /\ ~use_gitignore
    /\ config.ignore_extensions = <<e_TXT>>
    /\ {<<n_a_txt>>, <<n_N_TXT>>} \subseteq ignoredLog
    /\ <<n_sub>> \in DocPaths(LastDoc)


\* C19: a file node whose extension is on the packager's known-binary list
\* and whose content was captured from a readable file carries a binary
\* block with encoding base64 that holds the file's bytes, also when those
\* bytes are valid UTF-8.
C19_KnownBinaryNoText ==
    \A n \in FileNodes :
        LET e == EntryAt(tree, n.path)
        IN (/\ InList(n.node.extension, packager_binary_extensions)
            /\ "contents" \in DOMAIN n.node
            /\ e.readable)
           => /\ n.node.contents.type = "binary"
              /\ n.node.contents.encoding = "base64"
              /\ n.node.contents.data = b64encode(e.bytes)

\* C19's case: p.png holds "Hi", valid UTF-8, and was captured as a binary
\* block
C19_Witness ==
    /\ Scanned
    /\ \E n \in FileNodes :
        /\ Name(n) = n_p_png
        /\ EntryAt(tree, n.path).bytes = s_Hi
        /\ Utf8Decode(s_Hi).ok
        /\ n.node.contents.type = "binary"


\* a file node with a binary block whose declared encoding is not base64
UnsupportedBinary(it) ==
    /\ it.item.type = "file"
    /\ "contents" \in DOMAIN it.item
    /\ it.item.contents.type = "binary"
    /\ it.item.contents.encoding # "base64"

\* b follows a in the same contents list
LaterSibling(a, b) ==
    /\ Len(a.at) = Len(b.at)
    /\ SubSeq(a.at, 1, Len(a.at) - 1) = SubSeq(b.at, 1, Len(b.at) - 1)
    /\ a.at[Len(a.at)] < b.at[Len(b.at)]

\* C20 (as claimed): once the extraction has come to materialize a binary
\* block whose declared encoding is not base64 (its target is free, or
\* overwrite is set), it aborts: nothing is created for the items that follow
\* it in its contents list.
C20_UnsupportedEncodingAborts ==
    [][extracted' =>
        \A a, b \in XNodes :
            (/\ UnsupportedBinary(a)
             /\ ~Exists(dest, Target(a)) \/ overwrite'
             /\ LaterSibling(a, b))
            => (Exists(dest', Target(b)) => Exists(dest, Target(b)))]_vars


\* C21 (as claimed): after an extraction into a destination that did not
\* exist, every file of the document whose node carries a modified timestamp
\* has that timestamp as its modification time, the files created empty for
\* a node without a content block or with an error block included.
C21_ModifiedApplied ==
    extracted =>
        \A n \in DocNodes(LastDoc) :
            (n.node.type = "file" /\ "modified" \in DOMAIN n.node)
                => \A d \in dest :
                    (d.path = n.path /\ is_file(d))
                        => d.mtime = fromisoformat(n.node.modified)


\* the bytes a file node stands for: those of its text or binary block, none
\* for a node without a content block or with an error block
NodeBytes(it) ==
    IF "contents" \notin DOMAIN it.item THEN <<>>
    ELSE IF it.item.contents.type = "text"
         THEN Encode(it.item.contents.encoding,
                     WriteNewlines(it.item.contents.data)).bytes
    ELSE IF it.item.contents.type = "binary"
         THEN b64decode(it.item.contents.data).bytes
    ELSE <<>>

\* no other node of the document has the same target path
OnlyAtTarget(it) == \A o \in XNodes : Target(o) = Target(it) => o = it

\* C22 (as claimed): an extraction without the overwrite flag leaves every
\* entry that stood at the destination as it was and counts no file that
\* stood there as created; an extraction with the flag makes every file that
\* stood at the target path of a well-formed file node the file the document
\* describes.
C22_OverwritePolicy ==
    [][extracted' =>
        /\ ~overwrite' =>
            /\ dest \subseteq dest'
            /\ xstats'.files <= Cardinality({d \in dest' \ dest : is_file(d)})
        /\ overwrite' =>
            \A it \in XNodes :
                (/\ it.item.type = "file"
                 /\ WellFormed(it)
                 /\ OnlyAtTarget(it)
                 /\ IsFileAt(dest, Target(it)))
                => \E d \in dest' :
                    /\ d.path = Target(it)
                    /\ is_file(d)
                    /\ d.bytes = NodeBytes(it)]_vars


\* |original size - extracted size| of a path in both file tables
SizeDiff(p) ==
    IF original_files[p].size >= extracted_files[p].size
    THEN original_files[p].size - extracted_files[p].size
    ELSE extracted_files[p].size - original_files[p].size

WithinTolerance(p) ==
    SizeDiff(p) <= 500 \/ 100 * SizeDiff(p) <= original_files[p].size

\* the two files have different digests
HashesDiffer(p) ==
    \/ original_files[p].size # extracted_files[p].size
    \/ original_files[p].content # extracted_files[p].content

\* the content-hash policy for limits lim50 and lim1 on the original size:
\* a file beyond a limit is skipped with a warning, counted as matched and
\* gets no content error; a file within the limits is not skipped, and when
\* both digests can be computed and differ it gets a content-mismatch error
\* and fails the comparison, unless its name is on the known-binary list and
\* its size difference is within the tolerance: then it gets no content
\* error; files_matched counts the skipped files and the hashed files that
\* are equal or accepted
HashPolicy(InLimits(_)) ==
    Compared =>
        LET both == DOMAIN original_files \cap DOMAIN extracted_files
            hashed(p) == original_files[p].readable
                            /\ extracted_files[p].readable
            accepted(p) == KnownBinaryName(p) /\ WithinTolerance(p)
        IN /\ \A p \in both :
                /\ ~InLimits(p) =>
                    /\ HasWarning("skipped", p)
                    /\ ~HasError("content_mismatch", p)
                /\ InLimits(p) =>
                    /\ ~HasWarning("skipped", p)
                    /\ (hashed(p) /\ HashesDiffer(p) /\ ~accepted(p)) =>
                        /\ HasError("content_mismatch", p)
                        /\ files_match = "False"
                    /\ (hashed(p) /\ HashesDiffer(p) /\ accepted(p)) =>
                        ~HasError("content_mismatch", p)
                    /\ ~HashesDiffer(p) => ~HasError("content_mismatch", p)
           /\ vstats.files_matched =
                Cardinality({p \in both :
                    \/ ~InLimits(p)
                    \/ hashed(p) /\ (~HashesDiffer(p) \/ accepted(p))})

UpToLimits(p) ==
    /\ original_files[p].size <= 50 * 1024 * 1024
    /\ KnownBinaryName(p) => original_files[p].size <= 1024 * 1024

BelowLimits(p) ==
    /\ original_files[p].size < 50 * 1024 * 1024
    /\ KnownBinaryName(p) => original_files[p].size < 1024 * 1024

\* C23 (as claimed): hashes are compared only when the original size is below
\* the 50 MB limit and, for a file on the known-binary list, below the 1 MB
\* limit; a hash mismatch is an error and fails the comparison unless the
\* file is on the known-binary list and its size difference is within the
\* tolerance, in which case it is counted as matched without an error.
C23_HashPolicyBelow == HashPolicy(BelowLimits)

\* C23: hashes are compared exactly when the original size is at most 50 MB
\* and, for a file on the known-binary list, at most 1 MB (a file of exactly
\* the limit is still hashed); a hash mismatch is an error and fails the
\* comparison unless the file is on the known-binary list and its size
\* difference is within the tolerance, in which case it is counted as
\* matched without an error.
C23_HashPolicy == HashPolicy(UpToLimits)

\* C23's case: b.bin of exactly 1 MB extracted 600,000 bytes longer is hashed
\* and gets a content-mismatch error, while a.txt of 50 MB and one byte with
\* another content is skipped and counted as matched
C23_Witness ==
    /\ Compared
    /\ DOMAIN original_files = ValidatorPaths
    /\ DOMAIN extracted_files = ValidatorPaths
    /\ original_files[n_b_bin].size = 1024 * 1024
    /\ SizeDiff(n_b_bin) = 600000
    /\ HasError("content_mismatch", n_b_bin)
    /\ original_files[n_a_txt].size = 50 * 1024 * 1024 + 1
    /\ HashesDiffer(n_a_txt)
    /\ HasWarning("skipped", n_a_txt)
    /\ vstats.files_matched = 1


\* what a validator that has made no call holds
FreshValidatorState ==
    [use_gitignore |-> FALSE, gitignore_patterns |-> <<>>,
     source_root |-> <<>>, config_patterns |-> EmptyConfigPatterns]

FreshValidatorLog ==
    [stats |-> ZeroValidatorStats, errors |-> <<>>, warnings |-> <<>>,
     files_match |-> "none", dirs_match |-> "none"]

\* C24 (as claimed, for the validator): after any number of validate() calls
\* on one validator, its counters, errors, warnings, ignore mode, patterns
\* and result are those a fresh validator making only the latest call on the
\* same two directories would hold.
C24_CallsOwnTheirState ==
    Validated =>
        \E cfgfile \in {<<>>, <<config>>} :
            \E r \in {validate(tree, dest, FreshValidatorState,
                               FreshValidatorLog, cfgfile)} :
                /\ vstats = r.v.stats
                /\ errors = r.v.errors
                /\ warnings = r.v.warnings
                /\ validation_passed = r.passed
                /\ use_gitignore = r.vi.use_gitignore
                /\ gitignore_patterns = r.vi.gitignore_patterns
                /\ config_patterns = r.vi.config_patterns


\* something in the validator's error list or warning list names this path
Logged(path_str) ==
    \/ \E k \in 1..Len(errors) : errors[k].path = path_str
    \/ \E k \in 1..Len(warnings) : warnings[k].path = path_str

\* C25 (as claimed): every entry that cannot be read is recorded and the
\* work goes on.  After a scan, a directory that cannot be listed has a node
\* with an error field, a captured file that cannot be opened has an error
\* block, and every other top-level entry still has its node; after an
\* extraction of that document every node has its file or directory; after
\* a validation, every directory of the original that cannot be listed and
\* every file whose digest cannot be computed is named in the validator's
\* error list or warning list, and the files beside them were still compared.
C25_RecordedAndContinued ==
    /\ Scanned =>
        /\ \A e \in tree :
            Len(e.path) = 1 => e.path \in DocPaths(LastDoc)
        /\ \A n \in DocNodes(LastDoc) :
            LET e == EntryAt(tree, n.path)
            IN ~e.readable =>
                IF is_dir(e) THEN "error" \in DOMAIN n.node
                ELSE n.node.contents.type = "error"
    /\ extracted =>
        /\ xstats.errors = 0
        /\ \A n \in DocNodes(LastDoc) : Exists(dest, n.path)
    /\ Validated =>
        /\ \A e \in tree :
            ~e.readable => Logged(JoinPath(e.path))
        /\ JoinPath(<<n_a_txt>>) \in DOMAIN original_files
        /\ vstats.files_matched >= 1


\* a place inside the destination directory
Inside(path) == path = <<>> \/ path[1] \notin {n_up, n_root}

\* C26 (as claimed): whatever the names of the document's nodes, an
\* extraction creates or changes files and directories inside the destination
\* directory only: every entry the disk holds after it lies inside the
\* destination or is as it was before.
C26_Contained ==
    [][extracted' => \A d \in dest' : Inside(d.path) \/ d \in dest]_vars


\* the root-relative paths a fresh validator keeps of the original directory
\* when the config.json next to it is the one given (none for <<>>)
ValidatorKept(cfgfile) ==
    LET vi == validator_load_gitignore(tree, FreshValidatorState, cfgfile)
        w == validator_scan_directory(tree, vi, TRUE, ZeroValidatorStats)
    IN DOMAIN w.files \cup DOMAIN w.dirs

\* C27 (as claimed): for every tree and configuration, with or without a
\* pattern file at the root, the paths the validator keeps of the original
\* directory (reading the configuration the scanner was given) are the
\* paths of the nodes of the scanned document.
C27_FiltersAgree ==
    Scanned =>
        {JoinPath(q) : q \in DocPaths(LastDoc)} = ValidatorKept(<<config>>)


\* C28 (as claimed): the validator's is_binary_file answers True for a file
\* exactly when the scanner's _is_binary_file does: a readable file of the
\* text "Hi" is captured as a binary block exactly when the validator holds
\* its path for binary.
C28_SameClassification ==
    Scanned =>
        \A n \in FileNodes :
            "contents" \in DOMAIN n.node =>
                (n.node.contents.type = "binary"
                    <=> is_binary_file(JoinPath(n.path)))


\* the file nodes of the last document that carry a content block, whose
\* file can be read and whose extension is not on the scanner's list
CapturedOffBinaryList ==
    {n \in DocNodes(LastDoc) :
        /\ n.node.type = "file"
        /\ "contents" \in DOMAIN n.node
        /\ EntryAt(tree, n.path).readable
        /\ \A i \in 1..Len(packager_binary_extensions) :
            Lower(Suffix(n.node.name)) # packager_binary_extensions[i]}

\* C29: a captured, readable file whose extension is not on the known-binary
\* list always has a text block, tagged utf-8 when its bytes are valid UTF-8
\* and latin-1 otherwise; it is never tagged cp1252 or iso-8859-1 and never
\* gets a binary block.
C29_Utf8OrLatin1 ==
    Scanned =>
        \A n \in CapturedOffBinaryList :
            /\ n.node.contents.type = "text"
            /\ n.node.contents.encoding \in {"utf-8", "latin-1"}
            /\ n.node.contents.encoding = "utf-8"
                <=> Utf8Decode(EntryAt(tree, n.path).bytes).ok

\* C29's case: one document holds a file tagged utf-8 and a file of invalid
\* UTF-8 tagged latin-1
C29_Witness ==
    /\ Scanned
    /\ \E n \in CapturedOffBinaryList :
        /\ ~Utf8Decode(EntryAt(tree, n.path).bytes).ok
        /\ n.node.contents.encoding = "latin-1"
    /\ \E n \in CapturedOffBinaryList :
        /\ EntryAt(tree, n.path).bytes # <<>>
        /\ n.node.contents.encoding = "utf-8"


\* the distinct file paths of both trees, as validate() recorded them
AllFilePaths == DOMAIN original_files \cup DOMAIN extracted_files

\* C30 (as claimed): after one validate() of a fresh validator the five file
\* counters sum to the number of distinct file paths of the two trees, each
\* path being counted in exactly one of them, and no file is counted as
\* matched and as a mismatch at once: with a single file in both trees at
\* most one of files_matched, files_size_mismatch and files_content_mismatch
\* is 1.
C30_CountersPartition ==
    (Validated /\ dest # {}) =>
        /\ vstats.files_matched + vstats.files_size_mismatch
            + vstats.files_content_mismatch + vstats.files_missing
            + vstats.files_extra = Cardinality(AllFilePaths)
        /\ (Cardinality(AllFilePaths) = 1
            /\ DOMAIN original_files = DOMAIN extracted_files)
            => vstats.files_matched + vstats.files_size_mismatch
                + vstats.files_content_mismatch = 1

=============================================================================
